---- MODULE Spec2Model ----
(***************************************************************************)
(* DebugSharp: the debug-adapter tracker, the stopped-event pull, the      *)
(* scaffold buffer and the consumers of the stopped state.                 *)
(*                                                                         *)
(* Every `await` of the TypeScript source is a point where the JavaScript  *)
(* event loop may run another handler, so every asynchronous function is   *)
(* split at its awaits on protocol requests, timers and workspace edits:   *)
(* one action per continuation.  Awaits on values that are already         *)
(* resolved (synchronous file reads wrapped in an async function) only     *)
(* yield to the micro-task queue and are part of the same action.          *)
(***************************************************************************)
EXTENDS Integers, Sequences, FiniteSets, TLC

\* ---------------------------------------------------------------- bounds
\* Number of inputs of the environment (lifecycle events, timer ticks, user
\* commands) in one behaviour.
MaxInputs == 4
\* Number of stopped events in one behaviour (one pull record each).
MaxStops == 2

\* ------------------------------------------------------------- constants
Sessions == {"A", "B"}
NoSession == "none"
NoState == [session |-> NoSession, frameId |-> 0, threadId |-> 0]
NoFrame == 0
\* thread ids a stopped event may carry; 0 stands for a body without threadId
ThreadIds == {1, 2}
NoThread == 0
\* the using directives found in the source file of each session's project
SourceFileUsings(s) == IF s = "A" THEN {"using System;"} ELSE {}
\* what the source of the selected frame looks like
SourceKinds == {"disk", "missing", "nopath"}
\* variables one `variables` response may list
VarResponses == {<<>>, <<"x">>, <<"this", "x">>}
MemberResponses == {<<"x">>, <<"m">>}
\* scopes one `scopes` response may list, by variablesReference (0: none)
ScopeResponses == {<<>>, <<0, 1>>}

VARIABLES
  live,              \* session -> "idle" | "live" | "terminated" | "closed"
  epoch,             \* session -> number of continued/terminated events seen
  issuedAt,          \* session -> sequence: epoch in which handle i was issued
  lastStoppedState,  \* debugTracker.ts: lastStoppedState
  debugSession,      \* completionProvider.ts: debugSession
  currentFrameId,    \* completionProvider.ts: currentFrameId
  tempFilePath,      \* evaluation panel: tempFilePath is set
  fileExists,        \* the temp file exists on disk
  docOpen,           \* the temp file is open as a text document
  buffer,            \* content of the scaffold buffer
  pulls,             \* the stopped callbacks, in order of their events
  pollerSession,     \* DebugPoller.currentSession
  pollInterval,      \* DebugPoller.pollInterval is set
  poll,              \* the poll() call in flight
  currentVariables,  \* inlayHints/provider.ts: currentVariables is non-empty
  currentSession,    \* inlayHints/provider.ts: currentSession
  objectReferences,  \* inlayHints/provider.ts: objectReferences
  command,           \* the evaluate command in flight
  lastRequest,       \* history: the last request a consumer sent with a handle
  stackTraces,       \* history: session -> stackTrace requests since its last
                     \* lifecycle event (counted up to 2)
  inputs,            \* number of environment inputs so far
  graph,             \* the debuggee's objects: handle -> its variables
  maxDepth,          \* serializeObjectToJson: argument maxDepth
  args,              \* history: handle and depth of the outermost call
  stack,             \* the serializeObjectToJson calls in progress
  output,            \* what the outermost call returned
  requests,          \* history: variables requests of the serializer
  failed,            \* history: keys (paths) whose variables request failed
  client,            \* the protocol-client operation in progress
  evaluation,        \* the evaluate message the panel is handling
  posted,            \* the last message posted to the panel's webview
  serializerCalls,   \* history: serializer calls of the evaluation
  memberCompletions, \* the getMemberCompletions call in progress
  evaluateRequests,  \* history: the evaluate requests sent, by sender
  poller,            \* the DebugPoller with its interval timers, the poll()
                     \* calls in flight and the inlay-hint data they write
  textCall,          \* the text function applied last: input and output
  evalFile           \* the temp file of the evaluation panel and its text

trackerVars == <<live, epoch, issuedAt, lastStoppedState, debugSession,
                 currentFrameId, tempFilePath, fileExists, docOpen, buffer,
                 pulls, pollerSession, pollInterval, poll, currentVariables,
                 currentSession, objectReferences, command, lastRequest,
                 stackTraces, inputs>>

serializerVars == <<graph, maxDepth, args, stack, output, requests, failed>>

\* the variables of the services that are called on demand
evaluationVars == <<evaluation, posted, serializerCalls, memberCompletions,
                    evaluateRequests>>
\* the variables of the text functions and of the scaffold buffer
textVars == <<textCall, evalFile>>
serviceVars == <<serializerVars, client, evaluationVars, textVars, poller>>
\* the variables the serializer leaves alone
serializerIdleVars == <<trackerVars, client, evaluationVars, textVars, poller>>
\* the variables the protocol-client operations leave alone
clientIdleVars ==
  <<trackerVars, serializerVars, evaluationVars, textVars, poller>>
\* the variables the evaluator leaves alone
evaluationIdleVars == <<trackerVars, serializerVars, client, textVars, poller>>
\* the variables the text functions leave alone
textIdleVars ==
  <<trackerVars, serializerVars, client, evaluationVars, poller>>
\* the variables the poller's methods leave alone
pollerIdleVars ==
  <<trackerVars, serializerVars, client, evaluationVars, textVars>>

vars == <<trackerVars, serviceVars>>

\* the variables the tracker actions leave alone
consumerVars == <<pollerSession, pollInterval, poll, currentVariables,
                  currentSession, objectReferences, command, lastRequest>>

\* ------------------------------------------------------------- helpers
EmptyScaffold == [declarations |-> <<>>, usings |-> {}]

\* scaffoldGenerator.generateScaffold, header portion: the declarations in
\* the order supplied and the usings as a set (deduplicated, sorted)
generateScaffold(variables, usings) ==
  [declarations |-> variables, usings |-> usings]

Contains(seq, x) == \E i \in 1..Len(seq) : seq[i] = x

\* getScopeVariables.addVariable over one response: first occurrence wins
RECURSIVE addVariables(_, _)
addVariables(variables, names) ==
  IF names = <<>> THEN variables
  ELSE addVariables(IF Contains(variables, Head(names)) THEN variables
                    ELSE Append(variables, Head(names)),
                    Tail(names))

\* the loop of getScopeVariables skips scopes whose variablesReference <= 0
RECURSIVE skipScopes(_)
skipScopes(scopes) ==
  IF scopes = <<>> THEN <<>>
  ELSE IF Head(scopes) <= 0 THEN skipScopes(Tail(scopes)) ELSE scopes

\* ------------------------------------------------------ the debug adapter
\* a handle is stale once the session resumed after the handle was issued
Stale(s, h) == h \in 1..Len(issuedAt[s]) /\ issuedAt[s][h] < epoch[s]

\* the debuggee of s is paused: a stopped event came after the last resume
Paused(s) ==
  /\ live[s] = "live"
  /\ \E q \in 1..Len(pulls) : pulls[q].session = s /\ pulls[q].epoch = epoch[s]

\* A request for the stack, or one that carries handle h, sent now: the
\* adapter can answer it only if the debuggee is paused and h is still valid.
\* The value is the epoch the answer belongs to, or -1 if the request fails;
\* the response reaches the extension later, possibly after a resume.
Ask(s, h) == IF s \in Sessions /\ Paused(s) /\ ~Stale(s, h) THEN epoch[s] ELSE -1

\* a threads request sent now
AskThreads(s) == IF s \in Sessions /\ live[s] = "live" THEN epoch[s] ELSE -1

IdlePoll == [pc |-> "idle", session |-> NoSession, frameId |-> NoFrame,
             asked |-> -1]
IdleCommand == [pc |-> "idle", name |-> "none", session |-> NoSession,
                asked |-> -1]
NoReference == [session |-> NoSession, variablesReference |-> 0]
NoRequest == [by |-> "none", session |-> NoSession, request |-> "none",
              stale |-> FALSE]
Commands == {"evaluateExpression", "evaluateInEditor"}

\* one more stackTrace request to session s
CountStackTrace(s) ==
  [stackTraces EXCEPT ![s] = IF @ < 2 THEN @ + 1 ELSE @]

\* inlayHints/provider.ts updateInlayHintData; `reference` is the
\* variablesReference of the one object among the variables, 0 if none
updateInlayHintData(nonEmpty, session, reference) ==
  [currentVariables |-> nonEmpty,
   currentSession |-> session,
   objectReferences |-> IF session # NoSession /\ reference > 0
                          THEN [session |-> session,
                                variablesReference |-> reference]
                          ELSE NoReference]

\* poller.ts: pollInterval is null
NoTimer == 0
\* new DebugPoller(inlayHintsProvider), and the module state of
\* inlayHints/provider.ts.  timers: the interval timers that are active;
\* created: the number of setInterval calls so far; polls: the poll() calls
\* in flight; afterStop (history): stopPolling was called and startPolling
\* has not been called since
NewPoller ==
  [pollInterval |-> NoTimer, timers |-> {}, created |-> 0,
   currentSession |-> NoSession, polls |-> <<>>,
   hint |-> updateInlayHintData(FALSE, NoSession, 0), afterStop |-> FALSE]

TrackerInit ==
  /\ poller = NewPoller
  /\ live = [s \in Sessions |-> "idle"]
  /\ epoch = [s \in Sessions |-> 0]
  /\ issuedAt = [s \in Sessions |-> <<>>]
  /\ lastStoppedState = NoState
  /\ debugSession = NoSession
  /\ currentFrameId = NoFrame
  /\ tempFilePath = FALSE
  /\ fileExists = FALSE
  /\ docOpen = FALSE
  /\ buffer = EmptyScaffold
  /\ pulls = <<>>
  /\ pollerSession = NoSession
  /\ pollInterval = FALSE
  /\ poll = IdlePoll
  /\ currentVariables = FALSE
  /\ currentSession = NoSession
  /\ objectReferences = NoReference
  /\ command = IdleCommand
  /\ lastRequest = NoRequest
  /\ stackTraces = [s \in Sessions |-> 0]
  /\ inputs = 0

\* no serializeObjectToJson call has been made
NoOutput == [kind |-> "none", text |-> <<>>, members |-> <<>>]
SerializerIdle ==
  /\ graph = <<>>
  /\ maxDepth = 0
  /\ args = [variablesReference |-> 0, depth |-> 0]
  /\ stack = <<>>
  /\ output = NoOutput
  /\ requests = 0
  /\ failed = {}

\* what a protocol-client operation returns: null, a frame id, a map of
\* variables, a list of properties, or a frame with its variables
Returned(kind, id, items, sourcePath) ==
  [kind |-> kind, id |-> id, items |-> items, sourcePath |-> sourcePath]
NoValue == Returned("none", 0, <<>>, "none")
\* what an operation keeps between two of its requests
Held(id, sourcePath, frames) ==
  [id |-> id, sourcePath |-> sourcePath, frames |-> frames]
\* the operation was not called for a stopped event
NotStopped == -1

\* no protocol-client operation has been called
ClientIdle ==
  client = [operation |-> "none", pc |-> "idle", argument |-> 0,
            held |-> Held(0, "none", <<>>), failure |-> "none",
            settled |-> "pending", value |-> NoValue,
            stopped |-> NotStopped]

\* a text or a number that is not there (undefined)
Undefined == <<"undefined">>
Absent == <<>>
\* The outcomes of an evaluate request: the promise is rejected with an
\* error object (its body.error.message and its message), or it resolves
\* to a body with result, error, type and variablesReference, or to
\* undefined.  A number that may be missing is a sequence of length <= 1.
RejectedWith(bodyMessage, message) ==
  [outcome |-> "rejected", bodyMessage |-> bodyMessage, message |-> message,
   result |-> Undefined, error |-> Undefined, type |-> Undefined,
   variablesReference |-> Absent]
AnsweredWith(result, error, type, variablesReference) ==
  [outcome |-> "answered", bodyMessage |-> Undefined, message |-> Undefined,
   result |-> result, error |-> error, type |-> type,
   variablesReference |-> variablesReference]
NoResponse ==
  [outcome |-> "undefined", bodyMessage |-> Undefined, message |-> Undefined,
   result |-> Undefined, error |-> Undefined, type |-> Undefined,
   variablesReference |-> Absent]
\* an EvaluationResult; isNull = TRUE stands for null
EvaluationResult(isNull, result, type, variablesReference) ==
  [isNull |-> isNull, result |-> result, type |-> type,
   variablesReference |-> variablesReference]
NullResult == EvaluationResult(TRUE, Undefined, Undefined, Absent)
NoMessage ==
  [type |-> "none", result |-> <<>>, json |-> NoOutput, isJson |-> FALSE,
   message |-> <<>>]

\* the panel is idle and no completion is asked for
EvaluationIdle ==
  /\ evaluation = [evaluator |-> "debug/evaluator.ts", pc |-> "idle",
                   expression |-> <<>>, frameId |-> 0,
                   response |-> NoResponse, returned |-> NullResult]
  /\ posted = NoMessage
  /\ serializerCalls = 0
  /\ memberCompletions = [pc |-> "idle", variablesReference |-> 0,
                          items |-> <<>>]
  /\ evaluateRequests = {}

\* no text function has been applied
NotApplied ==
  [function |-> "none", input |-> <<>>, base |-> <<>>, returned |-> FALSE,
   output |-> <<>>]
\* the temp file before createTempFile
NoFile ==
  [created |-> FALSE, open |-> FALSE, content |-> <<>>, region |-> 0,
   runs |-> 0, edits |-> 0, ran |-> FALSE, first |-> <<>>,
   before |-> <<>>, wasOpen |-> FALSE]
TextIdle == textCall = NotApplied /\ evalFile = NoFile

Init ==
  TrackerInit /\ SerializerIdle /\ ClientIdle /\ EvaluationIdle /\ TextIdle

\* the record of one stopped callback: its arguments, where it is, and what
\* it holds (epoch and failedRequest record history)
NewPull(s, threadId) ==
  [session |-> s, threadId |-> threadId, epoch |-> epoch[s], pc |-> "timer",
   frameId |-> NoFrame, sourcePath |-> "nopath", scopes |-> <<>>,
   rest |-> <<>>, variables |-> <<>>, pending |-> EmptyScaffold,
   asked |-> -1, failedRequest |-> FALSE]

\* ------------------------------------------------ host session lifecycle
\* extension.ts onDidStartDebugSession -> createTempFile; the tracker factory
\* creates one CSharpDebugTracker for the session.  projectDir = FALSE: no
\* project directory was found and createTempFile returns without a file.
StartSession(s, projectDir) ==
  /\ inputs < MaxInputs
  /\ live[s] = "idle"
  /\ live' = [live EXCEPT ![s] = "live"]
  /\ inputs' = inputs + 1
  /\ IF projectDir
       THEN /\ tempFilePath' = TRUE
            /\ fileExists' = TRUE
            /\ buffer' = generateScaffold(<<>>, {})
       ELSE UNCHANGED <<tempFilePath, fileExists, buffer>>
  /\ pollerSession' = s
  /\ pollInterval' = TRUE
  /\ UNCHANGED serviceVars
  /\ UNCHANGED <<epoch, issuedAt, lastStoppedState, debugSession, currentFrameId,
                 docOpen, pulls, poll, currentVariables, currentSession,
                 objectReferences, command, lastRequest, stackTraces>>

\* evaluation panel deleteTempFile: unlinkOk = FALSE is an unlink that throws
deleteTempFile(unlinkOk) ==
  IF tempFilePath /\ fileExists /\ unlinkOk
    THEN [tempFilePath |-> FALSE, fileExists |-> FALSE]
    ELSE [tempFilePath |-> tempFilePath, fileExists |-> fileExists]

\* extension.ts onDidTerminateDebugSession
TerminateSession(s, unlinkOk) ==
  /\ inputs < MaxInputs
  /\ live[s] \in {"live", "terminated"}
  /\ live' = [live EXCEPT ![s] = "closed"]
  /\ inputs' = inputs + 1
  /\ debugSession' = NoSession
  /\ currentFrameId' = NoFrame
  /\ lastStoppedState' = NoState
  /\ tempFilePath' = deleteTempFile(unlinkOk).tempFilePath
  /\ fileExists' = deleteTempFile(unlinkOk).fileExists
  /\ pollerSession' = NoSession
  /\ pollInterval' = FALSE
  /\ currentVariables' = updateInlayHintData(FALSE, NoSession, 0).currentVariables
  /\ currentSession' = updateInlayHintData(FALSE, NoSession, 0).currentSession
  /\ objectReferences' = updateInlayHintData(FALSE, NoSession, 0).objectReferences
  /\ UNCHANGED serviceVars
  /\ UNCHANGED <<epoch, issuedAt, docOpen, buffer, pulls, poll, command,
                 lastRequest, stackTraces>>

\* ------------------------------------------------------ tracker events
\* message.body?.threadId ?? 1
stoppedThreadId(bodyThreadId) ==
  IF bodyThreadId = NoThread THEN 1 ELSE bodyThreadId

\* onDidSendMessage, event 'stopped': body.threadId ?? 1, then setTimeout
StoppedEvent(s, bodyThreadId) ==
  /\ inputs < MaxInputs
  /\ Len(pulls) < MaxStops
  /\ live[s] = "live"
  /\ inputs' = inputs + 1
  /\ pulls' = Append(pulls, NewPull(s, stoppedThreadId(bodyThreadId)))
  /\ stackTraces' = [stackTraces EXCEPT ![s] = 0]
  /\ UNCHANGED serviceVars
  /\ UNCHANGED <<live, epoch, issuedAt, lastStoppedState, debugSession,
                 currentFrameId, tempFilePath, fileExists, docOpen, buffer,
                 consumerVars>>

\* onDidSendMessage, event 'continued'
ContinuedEvent(s) ==
  /\ inputs < MaxInputs
  /\ live[s] = "live"
  /\ inputs' = inputs + 1
  /\ epoch' = [epoch EXCEPT ![s] = @ + 1]
  /\ lastStoppedState' = NoState
  /\ stackTraces' = [stackTraces EXCEPT ![s] = 0]
  /\ UNCHANGED serviceVars
  /\ UNCHANGED <<live, issuedAt, debugSession, currentFrameId, tempFilePath,
                 fileExists, docOpen, buffer, pulls, consumerVars>>

\* onDidSendMessage, event 'terminated' or 'exited'
TerminatedEvent(s) ==
  /\ inputs < MaxInputs
  /\ live[s] = "live"
  /\ inputs' = inputs + 1
  /\ live' = [live EXCEPT ![s] = "terminated"]
  /\ epoch' = [epoch EXCEPT ![s] = @ + 1]
  /\ lastStoppedState' = NoState
  /\ stackTraces' = [stackTraces EXCEPT ![s] = 0]
  /\ UNCHANGED serviceVars
  /\ UNCHANGED <<issuedAt, debugSession, currentFrameId, tempFilePath,
                 fileExists, docOpen, buffer, pulls, consumerVars>>

\* ------------------------------------------------- the stopped callback
\* extension.ts, the callback given to registerDebugTracker: what the three
\* published fields are after updateEvalScaffold resolved to resolvedFrameId
onStopped(resolvedFrameId, session, threadId) ==
  IF resolvedFrameId # NoFrame
    THEN [state |-> [session |-> session, frameId |-> resolvedFrameId,
                     threadId |-> threadId],
          session |-> session, frameId |-> resolvedFrameId]
    ELSE [state |-> lastStoppedState, session |-> debugSession,
          frameId |-> currentFrameId]

\* updateEvalScaffold returned (resolvedFrameId, or NoFrame for undefined)
\* with the buffer holding `content`; the callback then runs to its end.
Resolved(p, r, resolvedFrameId, content) ==
  /\ pulls' = [pulls EXCEPT ![p] =
                 [NewPull(r.session, r.threadId) EXCEPT
                    !.pc = IF resolvedFrameId = NoFrame THEN "failed" ELSE "done",
                    !.epoch = r.epoch,
                    !.frameId = r.frameId,
                    !.failedRequest = r.failedRequest]]
  /\ buffer' = content
  /\ lastStoppedState' = onStopped(resolvedFrameId, r.session, r.threadId).state
  /\ debugSession' = onStopped(resolvedFrameId, r.session, r.threadId).session
  /\ currentFrameId' = onStopped(resolvedFrameId, r.session, r.threadId).frameId

\* updateEvalScaffold from "Read current content" on, with the usings known
WriteScaffold(p, r, usings) ==
  LET doc == docOpen /\ tempFilePath
      newContent == generateScaffold(r.variables, usings)
  IN  IF ~doc /\ ~(tempFilePath /\ fileExists)
        THEN Resolved(p, r, NoFrame, buffer)          \* readFileSync throws
      ELSE IF newContent = buffer
        THEN Resolved(p, r, r.frameId, buffer)        \* nothing changed
      ELSE IF doc
        THEN /\ pulls' = [pulls EXCEPT ![p] =
                           [r EXCEPT !.pc = "applyEdit", !.pending = newContent]]
             /\ UNCHANGED <<buffer, lastStoppedState, debugSession,
                            currentFrameId>>
      ELSE Resolved(p, r, r.frameId, newContent)      \* writeFileSync

\* getFrameAndVariables returned r.variables: getSourceFileUsings follows
SourceUsings(p, r) ==
  IF r.sourcePath = "nopath"
    THEN /\ pulls' = [pulls EXCEPT ![p] =
                       [r EXCEPT !.pc = "usingsThreads",
                                 !.asked = AskThreads(r.session)]]
         /\ UNCHANGED <<buffer, lastStoppedState, debugSession, currentFrameId>>
    ELSE WriteScaffold(p, r, IF r.sourcePath = "disk"
                              THEN SourceFileUsings(r.session) ELSE {})

\* the loop of getScopeVariables over the scopes left: the next variables
\* request, or the return when no scope is left
NextScope(p, r) ==
  IF skipScopes(r.scopes) # <<>>
    THEN /\ pulls' = [pulls EXCEPT ![p] =
                       [r EXCEPT !.pc = "variables",
                                 !.scopes = skipScopes(r.scopes),
                                 !.asked = Ask(r.session, r.frameId)]]
         /\ UNCHANGED <<buffer, lastStoppedState, debugSession, currentFrameId>>
    ELSE SourceUsings(p, [r EXCEPT !.scopes = <<>>])

\* the 50 ms timer of a stopped event fires (timers fire in the order they
\* were set): updateEvalScaffold up to the stackTrace request
TimerFires(p) ==
  /\ p \in 1..Len(pulls)
  /\ pulls[p].pc = "timer"
  /\ \A q \in 1..(p - 1) : pulls[q].pc # "timer"
  /\ IF tempFilePath /\ fileExists
       THEN /\ pulls' = [pulls EXCEPT ![p] =
                          [@ EXCEPT !.pc = "stackTrace",
                                    !.asked = Ask(pulls[p].session, NoFrame)]]
            /\ UNCHANGED <<buffer, lastStoppedState, debugSession,
                           currentFrameId>>
       ELSE Resolved(p, pulls[p], NoFrame, buffer)
  /\ stackTraces' = IF tempFilePath /\ fileExists
                      THEN CountStackTrace(pulls[p].session) ELSE stackTraces
  /\ UNCHANGED serviceVars
  /\ UNCHANGED <<live, epoch, issuedAt, tempFilePath, fileExists, docOpen,
                 consumerVars, inputs>>

\* the stackTrace response of getFrameAndVariables: ok = FALSE is a rejected
\* request or an empty frame list; otherwise the selected frame gets a fresh
\* id and `source` tells what its source path is
StackTraceResponse(p, ok, source) ==
  /\ p \in 1..Len(pulls)
  /\ pulls[p].pc = "stackTrace"
  /\ ok => pulls[p].asked >= 0
  /\ IF ok
       THEN /\ issuedAt' = [issuedAt EXCEPT ![pulls[p].session] =
                              Append(@, pulls[p].asked)]
            /\ pulls' = [pulls EXCEPT ![p] =
                          [@ EXCEPT !.pc = "scopes",
                                    !.frameId = Len(issuedAt[pulls[p].session]) + 1,
                                    !.sourcePath = source,
                                    !.asked = IF Paused(pulls[p].session)
                                                 /\ pulls[p].asked = epoch[pulls[p].session]
                                              THEN pulls[p].asked ELSE -1]]
            /\ UNCHANGED <<buffer, lastStoppedState, debugSession,
                           currentFrameId>>
       ELSE /\ Resolved(p, [pulls[p] EXCEPT !.failedRequest = TRUE], NoFrame,
                        buffer)
            /\ UNCHANGED issuedAt
  /\ UNCHANGED serviceVars
  /\ UNCHANGED <<live, epoch, tempFilePath, fileExists, docOpen, consumerVars,
                 stackTraces, inputs>>

\* the scopes response of getScopeVariables; a rejected request is caught
\* and the variables collected so far (none) are returned
ScopesResponse(p, ok, scopes) ==
  /\ p \in 1..Len(pulls)
  /\ pulls[p].pc = "scopes"
  /\ ok => pulls[p].asked >= 0
  /\ IF ok
       THEN NextScope(p, [pulls[p] EXCEPT !.scopes = scopes])
       ELSE SourceUsings(p, [pulls[p] EXCEPT !.failedRequest = TRUE])
  /\ UNCHANGED serviceVars
  /\ UNCHANGED <<live, epoch, issuedAt, tempFilePath, fileExists, docOpen,
                 consumerVars, stackTraces, inputs>>

\* the names of one variables response up to, and after, an expandable 'this'
RECURSIVE beforeThis(_)
beforeThis(names) ==
  IF names = <<>> \/ Head(names) = "this" THEN <<>>
  ELSE <<Head(names)>> \o beforeThis(Tail(names))

RECURSIVE afterThis(_)
afterThis(names) ==
  IF names = <<>> THEN <<>>
  ELSE IF Head(names) = "this" THEN Tail(names) ELSE afterThis(Tail(names))

\* the inner loop of getScopeVariables over the variables of one scope, from
\* `names` on: up to the next await (expandThisMembers) or the next scope
ScopeVariables(p, r, names) ==
  LET added == [r EXCEPT !.variables = addVariables(@, beforeThis(names))]
  IN  IF Contains(names, "this")
        THEN /\ pulls' = [pulls EXCEPT ![p] =
                           [added EXCEPT !.pc = "thisMembers",
                                         !.rest = afterThis(names),
                                         !.asked = Ask(r.session, r.frameId)]]
             /\ UNCHANGED <<buffer, lastStoppedState, debugSession,
                            currentFrameId>>
        ELSE NextScope(p, [added EXCEPT !.scopes = Tail(@), !.rest = <<>>])

\* the variables response for one scope; a rejected request is caught by
\* getScopeVariables, which returns the variables collected so far
VariablesResponse(p, ok, names) ==
  /\ p \in 1..Len(pulls)
  /\ pulls[p].pc = "variables"
  /\ ok => pulls[p].asked >= 0
  /\ IF ok
       THEN ScopeVariables(p, pulls[p], names)
       ELSE SourceUsings(p, [pulls[p] EXCEPT !.failedRequest = TRUE,
                                             !.scopes = <<>>])
  /\ UNCHANGED serviceVars
  /\ UNCHANGED <<live, epoch, issuedAt, tempFilePath, fileExists, docOpen,
                 consumerVars, stackTraces, inputs>>

\* the variables response of expandThisMembers; a failure is swallowed there
ThisMembersResponse(p, ok, members) ==
  /\ p \in 1..Len(pulls)
  /\ pulls[p].pc = "thisMembers"
  /\ ok => pulls[p].asked >= 0
  /\ ScopeVariables(p, [pulls[p] EXCEPT !.variables =
                          IF ok THEN addVariables(@, members) ELSE @],
                    pulls[p].rest)
  /\ UNCHANGED serviceVars
  /\ UNCHANGED <<live, epoch, issuedAt, tempFilePath, fileExists, docOpen,
                 consumerVars, stackTraces, inputs>>

\* getSourceFileUsings without a source path: the threads response
UsingsThreadsResponse(p, ok) ==
  /\ p \in 1..Len(pulls)
  /\ pulls[p].pc = "usingsThreads"
  /\ ok => pulls[p].asked >= 0
  /\ IF ok
       THEN /\ pulls' = [pulls EXCEPT ![p] =
                          [@ EXCEPT !.pc = "usingsStackTrace",
                                    !.asked = Ask(pulls[p].session, NoFrame)]]
            /\ UNCHANGED <<buffer, lastStoppedState, debugSession,
                           currentFrameId>>
       ELSE WriteScaffold(p, pulls[p], {})
  /\ stackTraces' = IF ok THEN CountStackTrace(pulls[p].session)
                      ELSE stackTraces
  /\ UNCHANGED serviceVars
  /\ UNCHANGED <<live, epoch, issuedAt, tempFilePath, fileExists, docOpen,
                 consumerVars, inputs>>

\* getSourceFileUsings without a source path: the stackTrace response
UsingsStackTraceResponse(p, ok, source) ==
  /\ p \in 1..Len(pulls)
  /\ pulls[p].pc = "usingsStackTrace"
  /\ ok => pulls[p].asked >= 0
  /\ WriteScaffold(p, pulls[p], IF ok /\ source = "disk"
                                  THEN SourceFileUsings(pulls[p].session)
                                  ELSE {})
  /\ UNCHANGED serviceVars
  /\ UNCHANGED <<live, epoch, issuedAt, tempFilePath, fileExists, docOpen,
                 consumerVars, stackTraces, inputs>>

\* vscode.workspace.applyEdit resolves; applied = FALSE: the edit was refused
ApplyEditDone(p, applied) ==
  /\ p \in 1..Len(pulls)
  /\ pulls[p].pc = "applyEdit"
  /\ Resolved(p, pulls[p], pulls[p].frameId,
              IF applied THEN pulls[p].pending ELSE buffer)
  /\ UNCHANGED serviceVars
  /\ UNCHANGED <<live, epoch, issuedAt, tempFilePath, fileExists, docOpen,
                 consumerVars, stackTraces, inputs>>

\* ------------------------------------------------------------ the poller
\* setInterval fires DebugPoller.poll: up to the threads request of
\* getCurrentFrameId (one poll in flight at a time)
PollTick ==
  /\ inputs < MaxInputs
  /\ pollInterval
  /\ poll.pc = "idle"
  /\ pollerSession # NoSession
  /\ inputs' = inputs + 1
  /\ poll' = [pc |-> "threads", session |-> pollerSession, frameId |-> NoFrame,
              asked |-> AskThreads(pollerSession)]
  /\ UNCHANGED serviceVars
  /\ UNCHANGED <<live, epoch, issuedAt, lastStoppedState, debugSession,
                 currentFrameId, tempFilePath, fileExists, docOpen, buffer,
                 pulls, pollerSession, pollInterval, currentVariables,
                 currentSession, objectReferences, command, lastRequest,
                 stackTraces>>

\* getCurrentFrameId: the threads response, then the stackTrace request
PollThreadsResponse(ok) ==
  /\ poll.pc = "threads"
  /\ ok => poll.asked >= 0
  /\ poll' = IF ok THEN [poll EXCEPT !.pc = "stackTrace",
                                     !.asked = Ask(poll.session, NoFrame)]
             ELSE IdlePoll
  /\ stackTraces' = IF ok THEN CountStackTrace(poll.session) ELSE stackTraces
  /\ UNCHANGED serviceVars
  /\ UNCHANGED <<live, epoch, issuedAt, lastStoppedState, debugSession,
                 currentFrameId, tempFilePath, fileExists, docOpen, buffer,
                 pulls, pollerSession, pollInterval, currentVariables,
                 currentSession, objectReferences, command, lastRequest,
                 inputs>>

\* getCurrentFrameId: the stackTrace response (the top frame gets a fresh
\* id); poll then calls getVariablesForFrame(this.currentSession, frameId),
\* whose scopes request throws at once when the session is undefined
PollStackTraceResponse(ok) ==
  /\ poll.pc = "stackTrace"
  /\ ok => poll.asked >= 0
  /\ IF ok
       THEN /\ issuedAt' = [issuedAt EXCEPT ![poll.session] =
                              Append(@, poll.asked)]
            /\ poll' = IF pollerSession = NoSession THEN IdlePoll
                       ELSE [pc |-> "scopes", session |-> pollerSession,
                             frameId |-> Len(issuedAt[poll.session]) + 1,
                             asked |-> IF pollerSession = poll.session
                                          /\ Paused(poll.session)
                                          /\ poll.asked = epoch[poll.session]
                                       THEN poll.asked ELSE -1]
       ELSE /\ poll' = IdlePoll
            /\ UNCHANGED issuedAt
  /\ UNCHANGED serviceVars
  /\ UNCHANGED <<live, epoch, lastStoppedState, debugSession, currentFrameId,
                 tempFilePath, fileExists, docOpen, buffer, pulls,
                 pollerSession, pollInterval, currentVariables, currentSession,
                 objectReferences, command, lastRequest, stackTraces, inputs>>

\* getVariablesForFrame: the scopes response; ok = FALSE is a rejected
\* request or an empty scope list
PollScopesResponse(ok) ==
  /\ poll.pc = "scopes"
  /\ ok => poll.asked >= 0
  /\ poll' = IF ok THEN [poll EXCEPT !.pc = "variables",
                                     !.asked = Ask(poll.session, poll.frameId)]
             ELSE IdlePoll
  /\ UNCHANGED serviceVars
  /\ UNCHANGED <<live, epoch, issuedAt, lastStoppedState, debugSession,
                 currentFrameId, tempFilePath, fileExists, docOpen, buffer,
                 pulls, pollerSession, pollInterval, currentVariables,
                 currentSession, objectReferences, command, lastRequest,
                 stackTraces, inputs>>

\* getVariablesForFrame: the variables response, then the rest of poll.
\* found: "empty" (no variable, or a rejected request), "primitive" (no
\* variable has a container handle) or "object" (one has a fresh handle)
PollVariablesResponse(found) ==
  /\ poll.pc = "variables"
  /\ found # "empty" => poll.asked >= 0
  /\ poll' = IdlePoll
  /\ issuedAt' = IF found = "object"
                   THEN [issuedAt EXCEPT ![poll.session] = Append(@, poll.asked)]
                   ELSE issuedAt
  /\ LET hint == updateInlayHintData(TRUE, pollerSession,
                    IF found = "object" THEN Len(issuedAt[poll.session]) + 1
                    ELSE 0)
     IN  IF found = "empty"
           THEN UNCHANGED <<currentVariables, currentSession, objectReferences>>
           ELSE /\ currentVariables' = hint.currentVariables
                /\ currentSession' = hint.currentSession
                /\ objectReferences' = hint.objectReferences
  /\ UNCHANGED serviceVars
  /\ UNCHANGED <<live, epoch, lastStoppedState, debugSession, currentFrameId,
                 tempFilePath, fileExists, docOpen, buffer, pulls,
                 pollerSession, pollInterval, command, lastRequest,
                 stackTraces, inputs>>

\* ----------------------------------------------------- evaluate commands
\* completionProvider.ts updateDebugContext, then (evaluateExpression only)
\* showEvaluationPanel, which opens the temp file as a document
CommandProceeds(name, session, frameId) ==
  /\ debugSession' = session
  /\ currentFrameId' = frameId
  /\ docOpen' = IF name = "evaluateExpression" /\ tempFilePath /\ fileExists
                  THEN TRUE ELSE docOpen
  /\ command' = IdleCommand

\* extension.ts, commands evaluateExpression and evaluateInEditor: the frame
\* id of the stopped state, or else getCurrentFrameId
EvaluateCommand(name) ==
  /\ inputs < MaxInputs
  /\ command.pc = "idle"
  /\ pollerSession # NoSession
  /\ inputs' = inputs + 1
  /\ IF lastStoppedState # NoState
       THEN CommandProceeds(name, pollerSession, lastStoppedState.frameId)
       ELSE /\ command' = [pc |-> "threads", name |-> name,
                           session |-> pollerSession,
                           asked |-> AskThreads(pollerSession)]
            /\ UNCHANGED <<debugSession, currentFrameId, docOpen>>
  /\ UNCHANGED serviceVars
  /\ UNCHANGED <<live, epoch, issuedAt, lastStoppedState, tempFilePath,
                 fileExists, buffer, pulls, pollerSession, pollInterval, poll,
                 currentVariables, currentSession, objectReferences,
                 lastRequest, stackTraces>>

CommandThreadsResponse(ok) ==
  /\ command.pc = "threads"
  /\ ok => command.asked >= 0
  /\ command' = IF ok THEN [command EXCEPT !.pc = "stackTrace",
                                           !.asked = Ask(command.session, NoFrame)]
                ELSE IdleCommand
  /\ stackTraces' = IF ok THEN CountStackTrace(command.session)
                      ELSE stackTraces
  /\ UNCHANGED serviceVars
  /\ UNCHANGED <<live, epoch, issuedAt, lastStoppedState, debugSession,
                 currentFrameId, tempFilePath, fileExists, docOpen, buffer,
                 pulls, pollerSession, pollInterval, poll, currentVariables,
                 currentSession, objectReferences, lastRequest, inputs>>

CommandStackTraceResponse(ok) ==
  /\ command.pc = "stackTrace"
  /\ ok => command.asked >= 0
  /\ IF ok
       THEN /\ issuedAt' = [issuedAt EXCEPT ![command.session] =
                              Append(@, command.asked)]
            /\ CommandProceeds(command.name, command.session,
                               Len(issuedAt[command.session]) + 1)
       ELSE /\ command' = IdleCommand
            /\ UNCHANGED <<issuedAt, debugSession, currentFrameId, docOpen>>
  /\ UNCHANGED serviceVars
  /\ UNCHANGED <<live, epoch, lastStoppedState, tempFilePath, fileExists,
                 buffer, pulls, pollerSession, pollInterval, poll,
                 currentVariables, currentSession, objectReferences,
                 lastRequest, stackTraces, inputs>>

\* ------------------------------------------------- consumers of handles
\* the user opens the temp file in an editor
OpenDocument ==
  /\ inputs < MaxInputs
  /\ tempFilePath /\ fileExists /\ ~docOpen
  /\ docOpen' = TRUE
  /\ inputs' = inputs + 1
  /\ UNCHANGED serviceVars
  /\ UNCHANGED <<live, epoch, issuedAt, lastStoppedState, debugSession,
                 currentFrameId, tempFilePath, fileExists, buffer, pulls,
                 consumerVars, stackTraces>>

\* completionProvider.ts provideCompletionItems in the open temp file:
\* getMemberCompletions sends evaluate with currentFrameId,
\* getVariableCompletions sends scopes with currentFrameId
ProvideCompletions(member) ==
  /\ docOpen
  /\ debugSession # NoSession /\ currentFrameId # NoFrame
  /\ lastRequest' = [by |-> "completionProvider", session |-> debugSession,
                     request |-> IF member THEN "evaluate" ELSE "scopes",
                     stale |-> Stale(debugSession, currentFrameId)]
  /\ UNCHANGED serviceVars
  /\ UNCHANGED <<live, epoch, issuedAt, lastStoppedState, debugSession,
                 currentFrameId, tempFilePath, fileExists, docOpen, buffer,
                 pulls, pollerSession, pollInterval, poll, currentVariables,
                 currentSession, objectReferences, command, stackTraces,
                 inputs>>

\* objectViewer.ts showObjectJson: serializeObjectToJson sends variables
\* with the stored variablesReference
showObjectJson ==
  /\ objectReferences # NoReference
  /\ lastRequest' = [by |-> "objectViewer",
                     session |-> objectReferences.session,
                     request |-> "variables",
                     stale |-> Stale(objectReferences.session,
                                     objectReferences.variablesReference)]
  /\ UNCHANGED serviceVars
  /\ UNCHANGED <<live, epoch, issuedAt, lastStoppedState, debugSession,
                 currentFrameId, tempFilePath, fileExists, docOpen, buffer,
                 pulls, pollerSession, pollInterval, poll, currentVariables,
                 currentSession, objectReferences, command, stackTraces,
                 inputs>>

PullIds == 1..MaxStops

\* the continuations of the stopped callbacks
PullStep ==
  \/ \E p \in PullIds : TimerFires(p)
  \/ \E p \in PullIds, ok \in BOOLEAN, k \in SourceKinds :
       StackTraceResponse(p, ok, k)
  \/ \E p \in PullIds, ok \in BOOLEAN, sc \in ScopeResponses :
       ScopesResponse(p, ok, sc)
  \/ \E p \in PullIds, ok \in BOOLEAN, ns \in VarResponses :
       VariablesResponse(p, ok, ns)
  \/ \E p \in PullIds, ok \in BOOLEAN, ns \in MemberResponses :
       ThisMembersResponse(p, ok, ns)
  \/ \E p \in PullIds, ok \in BOOLEAN : UsingsThreadsResponse(p, ok)
  \/ \E p \in PullIds, ok \in BOOLEAN, k \in SourceKinds :
       UsingsStackTraceResponse(p, ok, k)
  \/ \E p \in PullIds, b \in BOOLEAN : ApplyEditDone(p, b)

\* the host's session notifications, the tracker's events except stopped,
\* and the user opening the temp file
LifecycleStep ==
  \/ \E s \in Sessions, b \in BOOLEAN : StartSession(s, b)
  \/ \E s \in Sessions, b \in BOOLEAN : TerminateSession(s, b)
  \/ \E s \in Sessions : ContinuedEvent(s)
  \/ \E s \in Sessions : TerminatedEvent(s)
  \/ OpenDocument

Next ==
  \/ LifecycleStep
  \/ \E s \in Sessions, t \in ThreadIds \cup {NoThread} : StoppedEvent(s, t)
  \/ PullStep

\* The tracker with the host's session lifecycle.
Spec == Init /\ [][Next]_vars

\* The tracker together with the consumers of its state, for behaviours
\* with one stopped event.
NextConsumers ==
  \/ LifecycleStep
  \/ \E s \in Sessions, t \in ThreadIds \cup {NoThread} :
       pulls = <<>> /\ StoppedEvent(s, t)
  \/ PullStep
  \/ PollTick
  \/ \E ok \in BOOLEAN : PollThreadsResponse(ok)
  \/ \E ok \in BOOLEAN : PollStackTraceResponse(ok)
  \/ \E ok \in BOOLEAN : PollScopesResponse(ok)
  \/ \E f \in {"empty", "primitive", "object"} : PollVariablesResponse(f)
  \/ \E c \in Commands : EvaluateCommand(c)
  \/ \E ok \in BOOLEAN : CommandThreadsResponse(ok)
  \/ \E ok \in BOOLEAN : CommandStackTraceResponse(ok)
  \/ \E m \in BOOLEAN : ProvideCompletions(m)
  \/ showObjectJson

SpecConsumers == Init /\ [][NextConsumers]_vars

\* ------------------------------------------- the poller and its timers
\* setInterval calls and poll() calls in flight the model follows
MaxTimers == 3
MaxPolls == 2

\* clearInterval(this.pollInterval), if it is set
clearInterval(p) ==
  IF p.pollInterval # NoTimer THEN p.timers \ {p.pollInterval} ELSE p.timers

\* startPolling without its clearInterval
startPollingAgain(p) ==
  [p EXCEPT !.timers = @ \cup {p.created + 1},
            !.pollInterval = p.created + 1,
            !.created = @ + 1,
            !.afterStop = FALSE]
\* poller.ts startPolling: the timer that is set is cleared, a new one is set
startPolling(p) ==
  [p EXCEPT !.timers = clearInterval(p) \cup {p.created + 1},
            !.pollInterval = p.created + 1,
            !.created = @ + 1,
            !.afterStop = FALSE]

\* poller.ts stopPolling: the timer is cleared, the inlay-hint data emptied
stopPolling(p) ==
  [p EXCEPT !.timers = clearInterval(p),
            !.pollInterval = NoTimer,
            !.hint = updateInlayHintData(FALSE, NoSession, 0),
            !.afterStop = TRUE]

\* poller.ts setSession
setSession(p, session) == [p EXCEPT !.currentSession = session]

\* the sequence without its i-th element
removeAt(seq, i) == SubSeq(seq, 1, i - 1) \o SubSeq(seq, i + 1, Len(seq))

\* extension.ts calls startPolling after setSession(session) with a session
StartPollingCall ==
  /\ poller.created < MaxTimers
  /\ poller.currentSession # NoSession
  /\ poller' = startPolling(poller)
  /\ UNCHANGED pollerIdleVars

\* extension.ts calls stopPolling after setSession(undefined)
StopPollingCall ==
  /\ poller.currentSession = NoSession
  /\ poller' = stopPolling(poller)
  /\ UNCHANGED pollerIdleVars

SetSessionCall(session) ==
  /\ poller' = setSession(poller, session)
  /\ UNCHANGED pollerIdleVars

\* an active interval timer fires poll(), which returns at once without a
\* session or an active editor, and else awaits getCurrentFrameId
PollTimerFires(timer, activeTextEditor) ==
  /\ timer \in poller.timers
  /\ Len(poller.polls) < MaxPolls
  /\ poller' =
       IF poller.currentSession = NoSession \/ ~activeTextEditor
         THEN poller
         ELSE [poller EXCEPT
                 !.polls = Append(@, [pc |-> "getCurrentFrameId",
                                      session |-> poller.currentSession])]
  /\ UNCHANGED pollerIdleVars

\* getCurrentFrameId returns to the i-th poll(): null ends it; with a frame
\* id it calls getVariablesForFrame(this.currentSession, frameId), which
\* returns {} at once when the session is undefined
GetCurrentFrameIdReturns(i, frameId) ==
  /\ i \in 1..Len(poller.polls)
  /\ poller.polls[i].pc = "getCurrentFrameId"
  /\ poller' =
       IF frameId = NoFrame \/ poller.currentSession = NoSession
         THEN [poller EXCEPT !.polls = removeAt(@, i)]
         ELSE [poller EXCEPT
                 !.polls[i] = [pc |-> "getVariablesForFrame",
                               session |-> poller.currentSession]]
  /\ UNCHANGED pollerIdleVars

\* getVariablesForFrame returns to the i-th poll(): an empty map ends it,
\* any other is handed to updateInlayHintData with this.currentSession.
\* found: "empty", "primitive" (no variable has a container handle) or
\* "object" (one has)
GetVariablesForFrameReturns(i, found) ==
  /\ i \in 1..Len(poller.polls)
  /\ poller.polls[i].pc = "getVariablesForFrame"
  /\ poller' =
       [poller EXCEPT
          !.polls = removeAt(@, i),
          !.hint = IF found = "empty" THEN @
                   ELSE updateInlayHintData(TRUE, poller.currentSession,
                                            IF found = "object" THEN 1 ELSE 0)]
  /\ UNCHANGED pollerIdleVars

NextPoller ==
  \/ StartPollingCall
  \/ StopPollingCall
  \/ \E session \in Sessions \cup {NoSession} : SetSessionCall(session)
  \/ \E timer \in 1..MaxTimers, activeTextEditor \in BOOLEAN :
       PollTimerFires(timer, activeTextEditor)
  \/ \E i \in 1..MaxPolls, frameId \in {NoFrame, 1} :
       GetCurrentFrameIdReturns(i, frameId)
  \/ \E i \in 1..MaxPolls, found \in {"empty", "primitive", "object"} :
       GetVariablesForFrameReturns(i, found)

\* The poller under the calls of the session listeners, its timers and the
\* answers to its polls.
SpecPoller == Init /\ [][NextPoller]_vars

\* ------------------------------------------------------- the serializer
\* Texts (property names, display values) are sequences of characters.
WhiteSpace == {" ", "\n"}
Digits == {"0", "1", "2", "3", "4", "5", "6", "7", "8", "9"}
Quotes == {"\"", "'"}

\* String.prototype.trim
RECURSIVE trimStart(_)
trimStart(s) ==
  IF s # <<>> /\ Head(s) \in WhiteSpace THEN trimStart(Tail(s)) ELSE s
RECURSIVE trimEnd(_)
trimEnd(s) ==
  IF s # <<>> /\ s[Len(s)] \in WhiteSpace
    THEN trimEnd(SubSeq(s, 1, Len(s) - 1)) ELSE s
trim(s) == trimEnd(trimStart(s))

\* String.prototype.startsWith
startsWith(s, prefix) ==
  Len(s) >= Len(prefix) /\ SubSeq(s, 1, Len(prefix)) = prefix

\* index of the first occurrence of character c in s, 0 if there is none
indexOf(s, c) ==
  IF \E i \in 1..Len(s) : s[i] = c
    THEN CHOOSE i \in 1..Len(s) : s[i] = c /\ \A j \in 1..(i - 1) : s[j] # c
    ELSE 0

\* s.replace(/\s*<open>.*<close>.*$/, ''): the leftmost match starts at the
\* white space before the first <open>, if a <close> follows that <open>
stripAnnotation(s, open, close) ==
  LET j == indexOf(s, open)
      start == IF j = 0 THEN 0
               ELSE CHOOSE i \in 1..j :
                      /\ \A k \in i..(j - 1) : s[k] \in WhiteSpace
                      /\ (i > 1 => s[i - 1] \notin WhiteSpace)
  IN  IF j > 0 /\ \E k \in (j + 1)..Len(s) : s[k] = close
        THEN SubSeq(s, 1, start - 1)
        ELSE s

\* s.split(' ')[0]
beforeSpace(s) ==
  IF indexOf(s, " ") = 0 THEN s ELSE SubSeq(s, 1, indexOf(s, " ") - 1)

\* the quotes left where they are
keepQuotes(s) == s
\* s.replace(/^["'](.*)["']$/, '$1')
stripQuotes(s) ==
  IF Len(s) >= 2 /\ s[1] \in Quotes /\ s[Len(s)] \in Quotes
    THEN SubSeq(s, 2, Len(s) - 1) ELSE s

\* serializer.ts cleanPropertyName
cleanPropertyName(name) ==
  stripQuotes(beforeSpace(stripAnnotation(stripAnnotation(trim(name), "{", "}"),
                                          "[", "]")))


\* a serialized value: a primitive or a sentinel (text), or an object
\* (members: its keys with their values, in insertion order)
Leaf(kind, text) == [kind |-> kind, text |-> text, members |-> <<>>]
Object(members) == [kind |-> "object", text |-> <<>>, members |-> members]
DepthSentinel == Leaf("string", <<"{", " ", ".", ".", ".", " ", "}">>)
ErrorSentinel == Leaf("string", <<"{", " ", "e", "r", "r", "o", "r", " ", "}">>)
TypeError == Leaf("throw", <<>>)

isDigits(s) == s # <<>> /\ \A i \in 1..Len(s) : s[i] \in Digits

\* index of the first character of s that is in cs, 0 if there is none
firstOf(s, cs) ==
  IF \E i \in 1..Len(s) : s[i] \in cs
    THEN CHOOSE i \in 1..Len(s) :
           s[i] \in cs /\ \A j \in 1..(i - 1) : s[j] \notin cs
    ELSE 0

\* StrUnsignedDecimalLiteral of ECMAScript's StringToNumber
isUnsignedDecimal(s) ==
  LET e == firstOf(s, {"e", "E"})
      mantissa == IF e = 0 THEN s ELSE SubSeq(s, 1, e - 1)
      exponent == IF e = 0 THEN <<>> ELSE SubSeq(s, e + 1, Len(s))
      digitsOfExponent == IF exponent # <<>> /\ Head(exponent) \in {"+", "-"}
                            THEN Tail(exponent) ELSE exponent
      dot == firstOf(mantissa, {"."})
      whole == IF dot = 0 THEN mantissa ELSE SubSeq(mantissa, 1, dot - 1)
      fraction == IF dot = 0 THEN <<>>
                  ELSE SubSeq(mantissa, dot + 1, Len(mantissa))
  IN  \/ s = <<"I", "n", "f", "i", "n", "i", "t", "y">>
      \/ /\ e > 0 => isDigits(digitsOfExponent)
         /\ IF dot = 0 THEN isDigits(whole)
            ELSE /\ whole = <<>> \/ isDigits(whole)
                 /\ fraction = <<>> \/ isDigits(fraction)
                 /\ whole # <<>> \/ fraction # <<>>

\* !isNaN(Number(value)): white space is trimmed, the empty text is 0, a
\* decimal literal may carry a sign, 0x / 0o / 0b literals may not
isNumber(value) ==
  LET s == trim(value)
      unsigned == IF s # <<>> /\ Head(s) \in {"+", "-"} THEN Tail(s) ELSE s
      body == SubSeq(s, 3, Len(s))
  IN  /\ value # Undefined
      /\ \/ s = <<>>
         \/ isUnsignedDecimal(unsigned)
         \/ /\ Len(s) > 2 /\ s[1] = "0" /\ s[2] \in {"x", "X"}
            /\ \A i \in 1..Len(body) :
                 body[i] \in Digits \cup {"a", "b", "c", "d", "e", "f",
                                          "A", "B", "C", "D", "E", "F"}
         \/ /\ Len(s) > 2 /\ s[1] = "0" /\ s[2] \in {"o", "O"}
            /\ \A i \in 1..Len(body) : body[i] \in Digits \ {"8", "9"}
         \/ /\ Len(s) > 2 /\ s[1] = "0" /\ s[2] \in {"b", "B"}
            /\ \A i \in 1..Len(body) : body[i] \in {"0", "1"}

\* serializer.ts parsePrimitiveValue; a number is kept by its trimmed text.
\* value.replace(/^"(.*)"$/, '$1'): the dot matches no line terminator
parsePrimitiveValue(value) ==
  IF isNumber(value) /\ value # <<>> THEN Leaf("number", trim(value))
  ELSE IF value \in {<<"t", "r", "u", "e">>, <<"f", "a", "l", "s", "e">>}
    THEN Leaf("boolean", value)
  ELSE IF value = <<"n", "u", "l", "l">> THEN Leaf("null", value)
  ELSE IF value = Undefined THEN TypeError        \* undefined.replace
  ELSE IF /\ Len(value) >= 2 /\ value[1] = "\"" /\ value[Len(value)] = "\""
          /\ \A i \in 2..(Len(value) - 1) : value[i] # "\n"
    THEN Leaf("string", SubSeq(value, 2, Len(value) - 1))
  ELSE Leaf("string", value)

\* config/constants.ts
MAX_OBJECT_DEPTH == 5
\* Greatest depth and maxDepth argument tried besides the default, and the
\* number of variables requests of one serialization that may fail.
MaxArg == 2
MaxFailures == 2

\* one DAP variable: display name, display value, container handle (0: none)
Prop(name, value, ref) ==
  [name |-> name, value |-> value, variablesReference |-> ref]

\* The object graphs of the debuggee, by handle: a tree with annotated,
\* quoted and debugger-internal names; an object that refers to itself; two
\* objects that refer to each other through two properties; an object with
\* two container properties and a primitive between them; an object one of
\* whose variables has no display value; an object whose containers are all
\* debugger-internal.
Graphs ==
  { <<<<Prop(<<"n", " ", "{", "T", "}">>, <<"3">>, 0),
        Prop(<<"o">>, <<"{", "O", "}">>, 2),
        Prop(<<"_", "f">>, <<"{", "O", "}">>, 3)>>,
      <<Prop(<<"\"", "k", "\"">>, <<"\"", "v", "\"">>, 0),
        Prop(<<"R", "a", "w", " ", "V", "i", "e", "w">>, <<>>, 3)>>,
      <<>>>>,
    <<<<Prop(<<"s">>, <<"{", "O", "}">>, 1),
        Prop(<<"a">>, <<"t", "r", "u", "e">>, 0)>>,
      <<>>, <<>>>>,
    <<<<Prop(<<"l">>, <<"{", "O", "}">>, 2),
        Prop(<<"r">>, <<"{", "O", "}">>, 2)>>,
      <<Prop(<<"u">>, <<"{", "O", "}">>, 1),
        Prop(<<"b">>, <<"n", "u", "l", "l">>, 0)>>,
      <<>>>>,
    <<<<Prop(<<"l">>, <<"{", "O", "}">>, 2),
        Prop(<<"m">>, <<"5">>, 0),
        Prop(<<"r">>, <<"{", "O", "}">>, 3)>>,
      <<Prop(<<"c">>, <<"1">>, 0)>>,
      <<Prop(<<"d">>, <<"x">>, 0)>>>>,
    <<<<Prop(<<"a">>, <<"1">>, 0),
        Prop(<<"o">>, <<"{", "O", "}">>, 2)>>,
      <<Prop(<<"x">>, <<"1">>, 0),
        Prop(<<"y">>, Undefined, 0),
        Prop(<<"z">>, <<"2">>, 0)>>,
      <<>>>>,
    <<<<Prop(<<"[", "0", "]">>, <<"{", "O", "}">>, 2),
        Prop(<<"R", "e", "s", "u", "l", "t", "s", " ", "V", "i", "e", "w">>,
             <<"{", "O", "}">>, 2),
        Prop(<<"_", "f">>, <<"1">>, 0),
        Prop(<<"k">>, <<"1">>, 0)>>,
      <<Prop(<<"c">>, <<"1">>, 0)>>,
      <<>>>> }

\* the filter left out
keepEveryProperty(v) == TRUE
\* dap.ts getObjectProperties: the filter on the names
keepProperty(v) ==
  /\ v.name # <<"R", "a", "w", " ", "V", "i", "e", "w">>
  /\ v.name # <<"R", "e", "s", "u", "l", "t", "s", " ", "V", "i", "e", "w">>
  /\ ~startsWith(v.name, <<"_">>)
  /\ ~startsWith(v.name, <<"[">>)

\* dap.ts getObjectProperties, given the outcome of the variables request:
\* rejected = TRUE for a request that throws, `variables` the list of the
\* response otherwise.  A variable without a name makes the filter throw;
\* every exception is caught and the empty list returned.
getObjectProperties(rejected, variables) ==
  IF rejected \/ \E i \in 1..Len(variables) : variables[i].name = Undefined
    THEN <<>>
    ELSE SelectSeq(variables, keepProperty)

\* result[key] = value on a JavaScript object
assign(members, key, value) ==
  IF \E i \in 1..Len(members) : members[i].key = key
    THEN [i \in 1..Len(members) |->
            IF members[i].key = key THEN [key |-> key, value |-> value]
            ELSE members[i]]
    ELSE Append(members, [key |-> key, value |-> value])

\* one call of serializeObjectToJson: its arguments, where it is (pc), the
\* properties not yet visited, the result object so far, the value it
\* returns, and (history) the keys that lead to it from the outermost call
Call(variablesReference, depth, path) ==
  [variablesReference |-> variablesReference, depth |-> depth, pc |-> "call",
   properties |-> <<>>, result |-> <<>>, value |-> NoOutput, path |-> path]

\* a call of serializeObjectToJson from outside the serializer
SerializerInit ==
  /\ graph \in Graphs
  /\ args \in [variablesReference : 1..3, depth : 0..(MaxArg + 1)]
  /\ stack = <<Call(args.variablesReference, args.depth, <<>>)>>
  /\ maxDepth \in 0..MaxArg \cup {MAX_OBJECT_DEPTH}
  /\ output = NoOutput
  /\ requests = 0
  /\ failed = {}

\* the innermost call
Top == stack[Len(stack)]
\* the stack with its innermost call replaced
WithTop(call) == [stack EXCEPT ![Len(stack)] = call]

\* the guard against unbounded recursion, with > in place of >=
depthLimitReachedLate(depth, limit) == depth > limit
\* serializeObjectToJson: the guard against unbounded recursion
depthLimitReached(depth, limit) == depth >= limit

\* serializeObjectToJson is entered: the depth check, then the variables
\* request of getObjectProperties
SerializeCall ==
  /\ stack # <<>> /\ Top.pc = "call"
  /\ IF depthLimitReached(Top.depth, maxDepth)
       THEN /\ stack' = WithTop([Top EXCEPT !.pc = "return",
                                            !.value = DepthSentinel])
            /\ UNCHANGED requests
       ELSE /\ stack' = WithTop([Top EXCEPT !.pc = "variables"])
            /\ requests' = requests + 1
  /\ UNCHANGED <<serializerIdleVars, graph, maxDepth, args, output, failed>>

\* the variables request resolves or (rejected) throws
ObjectPropertiesResponse(rejected) ==
  /\ stack # <<>> /\ Top.pc = "variables"
  /\ rejected => Cardinality(failed) < MaxFailures
  /\ failed' = IF rejected THEN failed \cup {Top.path} ELSE failed
  /\ stack' = WithTop([Top EXCEPT
                 !.pc = "loop",
                 !.properties =
                    getObjectProperties(rejected, graph[Top.variablesReference])])
  /\ UNCHANGED <<serializerIdleVars, graph, maxDepth, args, output,
                 requests>>

\* one round of the loop over the properties: a primitive is coerced and
\* stored, a container is serialized by a nested call; after the last
\* property the result object is returned.  An exception (a variable with
\* no display value) is caught and the error sentinel returned.
LoopStep ==
  /\ stack # <<>> /\ Top.pc = "loop"
  /\ IF Top.properties = <<>>
       THEN stack' = WithTop([Top EXCEPT !.pc = "return",
                                        !.value = Object(Top.result)])
       ELSE LET prop == Head(Top.properties)
                cleanName == cleanPropertyName(prop.name)
                value == parsePrimitiveValue(prop.value)
            IN  IF prop.variablesReference > 0
                  THEN stack' = Append(WithTop([Top EXCEPT !.pc = "await"]),
                                       Call(prop.variablesReference,
                                            Top.depth + 1,
                                            Append(Top.path, cleanName)))
                ELSE IF value = TypeError
                  THEN stack' = WithTop([Top EXCEPT !.pc = "return",
                                                   !.value = ErrorSentinel])
                ELSE stack' = WithTop([Top EXCEPT
                                 !.result = assign(@, cleanName, value),
                                 !.properties = Tail(@)])
  /\ UNCHANGED <<serializerIdleVars, graph, maxDepth, args, output,
                 requests, failed>>

\* a call returns: to the caller outside, or into the loop of the call that
\* awaits it, which stores the value under the property's clean name
Return ==
  /\ stack # <<>> /\ Top.pc = "return"
  /\ IF Len(stack) = 1
       THEN /\ output' = Top.value
            /\ stack' = <<>>
       ELSE LET caller == stack[Len(stack) - 1]
                cleanName == cleanPropertyName(Head(caller.properties).name)
            IN  /\ stack' = Append(SubSeq(stack, 1, Len(stack) - 2),
                                   [caller EXCEPT
                                      !.pc = "loop",
                                      !.result = assign(@, cleanName, Top.value),
                                      !.properties = Tail(@)])
                /\ UNCHANGED output
  /\ UNCHANGED <<serializerIdleVars, graph, maxDepth, args, requests,
                 failed>>

NextSerializer ==
  \/ SerializeCall
  \/ \E rejected \in BOOLEAN : ObjectPropertiesResponse(rejected)
  \/ LoopStep
  \/ Return

\* One call of serializeObjectToJson on one of the object graphs.
\* Every request is answered and every continuation runs.
InitSerializer ==
  TrackerInit /\ SerializerInit /\ ClientIdle /\ EvaluationIdle /\ TextIdle
SpecSerializer ==
  /\ InitSerializer
  /\ [][NextSerializer]_vars
  /\ WF_vars(NextSerializer)

\* ------------------------------------------------------------- the claims
\* what getLastStoppedState() holds once pull q has published
Published(q) ==
  [session |-> pulls[q].session, frameId |-> pulls[q].frameId,
   threadId |-> pulls[q].threadId]

\* the pulls of session s
PullsOf(s) == {q \in 1..Len(pulls) : pulls[q].session = s}

\* a stopped event of s that came after its last resume has been resolved
ResolvedStop(s) ==
  \E q \in PullsOf(s) : pulls[q].pc = "done" /\ pulls[q].epoch = epoch[s]

\* a pull with a protocol request or a workspace edit in flight
InFlight(q) == pulls[q].pc \notin {"timer", "done", "failed"}

\* C1: a continued event clears the stopped state and the pull of an earlier
\* stopped event does not bring it back: while a session is live, the stopped
\* state holds a record of it only if a stopped event that came after the
\* session's last continued event has been resolved.
C1_ContinuedClearsForGood ==
  \A s \in Sessions :
    (lastStoppedState.session = s /\ live[s] = "live") => ResolvedStop(s)

\* C2: after a terminated or exited event, or the host's notification that
\* the session terminated, the stopped state never holds a record of that
\* session again.
C2_TerminatedStaysCleared ==
  \A s \in Sessions :
    lastStoppedState.session = s => live[s] = "live"

\* C3: while a session is paused (from a stopped event to the next continued
\* or terminated event) at most one stackTrace request is sent to it.
C3_OneStackTracePerStop ==
  \A s \in Sessions : Paused(s) => stackTraces[s] <= 1

\* C4: sessions are independent: when the only stopped event of session b
\* has been resolved and b has neither resumed nor ended since, the stopped
\* state is the record of that stop, whatever the other session did.
C4_SessionsIndependent ==
  \A b \in Sessions : \A q \in PullsOf(b) :
    (PullsOf(b) = {q} /\ pulls[q].pc = "done" /\ pulls[q].epoch = epoch[b]
       /\ live[b] = "live")
    => lastStoppedState = Published(q)

\* C5: the stopped state is published only after the whole pull succeeded:
\* no pull whose stackTrace, scopes or scope-variables request failed has
\* published.
C5_PublishOnlyAfterWholePull ==
  \A q \in 1..Len(pulls) : pulls[q].pc = "done" => ~pulls[q].failedRequest

\* C6: a failed pull leaves the previous state unchanged: a step that ends a
\* pull one of whose stackTrace, scopes or scope-variables requests failed
\* changes neither the stopped state, nor the completion provider's context,
\* nor the scaffold buffer.
C6_FailedPullChangesNothing ==
  [][\A q \in 1..Len(pulls) :
       (pulls[q].pc \notin {"done", "failed"}
          /\ pulls'[q].pc \in {"done", "failed"}
          /\ pulls'[q].failedRequest)
       => UNCHANGED <<lastStoppedState, debugSession, currentFrameId, buffer>>
    ]_vars

\* C7: pulls of one session never overlap: at no time do two pulls of the
\* same session have a request in flight.
C7_PullsNeverOverlap ==
  \A p, q \in 1..Len(pulls) :
    (p # q /\ pulls[p].session = pulls[q].session)
    => ~(InFlight(p) /\ InFlight(q))

\* C8: of two stopped events of a session with no continued between them,
\* the later wins: once both pulls have published, and the session has not
\* resumed, the stopped state of the session is the record of the later one.
C8_LaterStopWins ==
  \A p, q \in 1..Len(pulls) :
    (/\ p < q
     /\ pulls[p].session = pulls[q].session
     /\ pulls[p].pc = "done" /\ pulls[q].pc = "done"
     /\ pulls[p].epoch = pulls[q].epoch
     /\ pulls[q].epoch = epoch[pulls[q].session]
     /\ live[pulls[q].session] = "live"
     /\ \A r \in PullsOf(pulls[q].session) : r <= q
     /\ lastStoppedState.session = pulls[q].session)
    => lastStoppedState = Published(q)

\* C9: after a continued event no consumer sends a request with a handle
\* obtained before it: the last request of the completion provider or the
\* object viewer to a live session carried a handle that was not stale.
C9_NoStaleHandleAfterContinued ==
  ~(lastRequest.stale /\ lastRequest.session \in Sessions
      /\ live[lastRequest.session] = "live")

\* C10: the stopped state and the pulled data are discarded together: once
\* a session has resumed or ended, and until a later stop of it is resolved,
\* neither the stopped state nor the completion context is held for it, and
\* (when it is the only session that ever stopped) the scaffold holds no
\* declarations.
C10_DiscardedTogether ==
  \A s \in Sessions :
    (epoch[s] > 0 /\ ~ResolvedStop(s))
    => /\ lastStoppedState.session # s
       /\ debugSession # s
       /\ (PullsOf(s) = 1..Len(pulls) => buffer.declarations = <<>>)

\* the host's notification that session s terminated is handled in this step
Terminates(s) == live[s] # "closed" /\ live'[s] = "closed"

\* C11: on session termination the session-scoped resources are released:
\* after the terminate handling has run the stopped state is undefined, the
\* completion provider holds no session and no frame id, polling is stopped
\* and the temp file is deleted; and nothing but the start of a session
\* creates the file, so that a later stop cannot recreate it.
C11_TerminateReleases ==
  [][/\ (\E s \in Sessions : Terminates(s))
        => /\ lastStoppedState' = NoState
           /\ debugSession' = NoSession /\ currentFrameId' = NoFrame
           /\ pollerSession' = NoSession /\ ~pollInterval'
           /\ ~fileExists'
     /\ (~fileExists /\ fileExists')
        => \E s \in Sessions : live[s] = "idle" /\ live'[s] = "live"
    ]_vars

\* the steps the extension host takes by itself: a timer that was set fires,
\* a workspace edit that was submitted resolves
HostStep ==
  \/ \E p \in PullIds : TimerFires(p)
  \/ \E p \in PullIds, b \in BOOLEAN : ApplyEditDone(p, b)

\* The tracker where the host keeps its timers and edits going, while the
\* debug adapter may leave any request unanswered for ever.
SpecFair == Init /\ [][Next]_vars /\ WF_vars(HostStep)

\* pull q waits for the response to a protocol request
Waiting(q) ==
  /\ q \in 1..Len(pulls)
  /\ pulls[q].pc \in {"stackTrace", "scopes", "variables", "thisMembers",
                      "usingsThreads", "usingsStackTrace"}

\* pull q has ended, with or without data
Ended(q) == q \in 1..Len(pulls) /\ pulls[q].pc \in {"done", "failed"}

\* C12: a protocol call that never resolves does not wedge the tracker:
\* while a pull waits for a response the tracker still takes the session's
\* continued, terminated and stopped events, and the waiting pull itself
\* ends after a bounded wait, whether or not the response ever comes.
C12_HungPullEnds ==
  /\ [](\A q \in PullIds :
         (Waiting(q) /\ live[pulls[q].session] = "live" /\ inputs < MaxInputs)
         => /\ ENABLED ContinuedEvent(pulls[q].session)
            /\ ENABLED TerminatedEvent(pulls[q].session)
            /\ Len(pulls) < MaxStops
                 => ENABLED StoppedEvent(pulls[q].session, NoThread))
  /\ \A q \in PullIds : Waiting(q) ~> Ended(q)

\* a stop that came while an earlier pull was waiting has been resolved and
\* published, the earlier pull still waiting
C12_LaterStopPublished ==
  \E p, q \in PullIds :
    /\ p < q /\ Waiting(p) /\ Ended(q)
    /\ pulls[q].pc = "done" /\ lastStoppedState = Published(q)

\* C13: the evaluate commands read the current stop only through the
\* tracker's accessor: a command invoked while getLastStoppedState() is
\* undefined ends at once ("not paused") and sends no threads or stackTrace
\* request of its own.
C13_CommandsReadAccessorOnly ==
  [][(command.pc = "idle" /\ lastStoppedState = NoState)
       => command'.pc = "idle"]_vars

\* C14: serializeObjectToJson called with depth >= maxDepth returns the
\* depth-limit sentinel at once and sends no request: such a call never
\* waits for a response and never calls on, at any level of the recursion,
\* and when the outermost call is such a call the output is the sentinel and
\* no request was sent at all.
C14_DepthLimitSentinel ==
  /\ \A i \in 1..Len(stack) :
       stack[i].depth >= maxDepth
       => /\ i = Len(stack)
          /\ stack[i].pc \in {"call", "return"}
          /\ stack[i].pc = "return" => stack[i].value = DepthSentinel
  /\ args.depth >= maxDepth
       => /\ requests = 0
          /\ output # NoOutput => output = DepthSentinel

\* a call on an object with properties, at a depth above a positive
\* maxDepth, has returned
C14_SentinelReturned ==
  /\ output = DepthSentinel /\ requests = 0
  /\ maxDepth > 0 /\ args.depth > maxDepth
  /\ graph[args.variablesReference] # <<>>

RECURSIVE serialized(_, _), serializedMembers(_, _, _)
serialized(variablesReference, depth) ==
  IF depth >= maxDepth THEN DepthSentinel
  ELSE serializedMembers(getObjectProperties(FALSE, graph[variablesReference]),
                         depth, <<>>)
serializedMembers(properties, depth, result) ==
  IF properties = <<>> THEN Object(result)
  ELSE LET prop == Head(properties)
           value == IF prop.variablesReference > 0
                      THEN serialized(prop.variablesReference, depth + 1)
                      ELSE parsePrimitiveValue(prop.value)
       IN  IF value = TypeError THEN ErrorSentinel
           ELSE serializedMembers(Tail(properties), depth,
                                  assign(result, cleanPropertyName(prop.name),
                                         value))

\* value with the value under the keys of path replaced by other
RECURSIVE replaceAt(_, _, _)
replaceAt(value, path, other) ==
  IF path = <<>> THEN other
  ELSE IF value.kind # "object" THEN value
  ELSE Object([i \in 1..Len(value.members) |->
                 IF value.members[i].key = Head(path)
                   THEN [key |-> Head(path),
                         value |-> replaceAt(value.members[i].value,
                                             Tail(path), other)]
                   ELSE value.members[i]])

\* C16: when the variables request for one nested container fails, the
\* output holds the error sentinel at that property's key and is otherwise
\* what it is without the failure.
C16_ErrorSentinelForSubtree ==
  \A path \in failed :
    (stack = <<>> /\ output # NoOutput /\ failed = {path} /\ path # <<>>)
    => output = replaceAt(serialized(args.variablesReference, args.depth),
                          path, ErrorSentinel)

\* ------------------------------------------------- the protocol client
ClientOperations ==
  {"getCurrentFrameId", "getVariablesForFrame", "getObjectProperties",
   "getFrameAndVariables"}
\* thread ids, frame ids and handles passed to the operations
ClientArguments == 1..2

Null == Returned("null", 0, <<>>, "none")
\* what each operation returns when it has nothing to return
Fallback(operation) ==
  CASE operation = "getCurrentFrameId" -> Null
    [] operation = "getVariablesForFrame" -> Returned("map", 0, <<>>, "none")
    [] operation = "getObjectProperties" -> Returned("list", 0, <<>>, "none")
    [] operation = "getFrameAndVariables" -> Null

\* The outcomes of session.customRequest: the promise is rejected, or the
\* response lacks the list asked for, or it carries the list.  An element
\* of a list may be null.
Rejected == [outcome |-> "rejected", list |-> <<>>]
NoList == [outcome |-> "noList", list |-> <<>>]
Answer(list) == [outcome |-> "list", list |-> list]
NullItem == [null |-> TRUE]
Responses(lists) == {Rejected, NoList} \cup {Answer(list) : list \in lists}

ThreadLists ==
  {<<>>, <<NullItem>>, <<[id |-> 1]>>, <<[id |-> 2], [id |-> 1]>>}
\* a frame's source: "none" (no path), "missing" (a path not on disk) or
\* "exists" (a path on disk)
FrameLists ==
  {<<>>, <<NullItem>>,
   <<[id |-> 1, source |-> "exists"]>>,
   <<[id |-> 1, source |-> "missing"]>>,
   <<[id |-> 1, source |-> "none"], [id |-> 2, source |-> "exists"]>>,
   <<[id |-> 1, source |-> "missing"], [id |-> 2, source |-> "none"]>>,
   <<[id |-> 1, source |-> "exists"], [id |-> 2, source |-> "exists"]>>,
   <<[id |-> 1, source |-> "none"], NullItem>>,
   <<[id |-> 2, source |-> "exists"], NullItem>>}
ScopeLists ==
  {<<>>, <<NullItem>>, <<[variablesReference |-> 1]>>,
   <<[variablesReference |-> 2], NullItem>>}
VariableLists ==
  {<<>>, <<NullItem>>,
   <<Prop(<<"a">>, <<"1">>, 0)>>,
   <<Prop(<<"a">>, <<"1">>, 0), NullItem>>,
   <<Prop(<<"a">>, <<"1">>, 0), Prop(<<"o">>, <<"{", "O", "}">>, 2)>>,
   <<Prop(<<"_", "f">>, <<"2">>, 0), Prop(<<"b">>, <<"x">>, 0)>>,
   <<Prop(<<"a">>, <<"1">>, 0), Prop(Undefined, <<"2">>, 0)>>}
\* the declarations getScopeVariables collects (it catches every exception)
ScopeVariableLists == {<<>>, <<"a">>, <<"a", "b">>}

hasNull(list) == \E i \in 1..Len(list) : list[i] = NullItem

\* How a step of an operation ends: it throws, it returns a value, or it
\* sends the next request.  failure tells what was wrong with the response.
Throws(failure) ==
  [pc |-> "settled", threw |-> TRUE, value |-> NoValue,
   held |-> Held(0, "none", <<>>), failure |-> failure]
Returns(value, failure) ==
  [pc |-> "settled", threw |-> FALSE, value |-> value,
   held |-> Held(0, "none", <<>>), failure |-> failure]
Awaits(pc, held) ==
  [pc |-> pc, threw |-> FALSE, value |-> NoValue, held |-> held,
   failure |-> "none"]

\* the catch block left out: the exception goes on to the caller
rethrow(completion, fallback) == completion
\* try { ... } catch (error) { return <fallback>; }
catchError(completion, fallback) ==
  IF completion.threw THEN [threw |-> FALSE, value |-> fallback]
  ELSE completion

\* the operation goes on as the step says; when the step ends the body the
\* promise of the operation is settled
Continue(step) ==
  client' =
    IF step.pc = "settled"
      THEN LET completion ==
                 catchError([threw |-> step.threw, value |-> step.value],
                            Fallback(client.operation))
           IN  [client EXCEPT
                  !.pc = "settled", !.failure = step.failure,
                  !.settled = IF completion.threw THEN "rejected"
                              ELSE "fulfilled",
                  !.value = completion.value]
      ELSE [client EXCEPT !.pc = step.pc, !.held = step.held]

\* an operation is called and sends its first request
ClientCall(operation, argument) ==
  /\ client.pc \in {"idle", "settled"}
  /\ client' = [operation |-> operation,
                pc |-> CASE operation = "getCurrentFrameId" -> "threads"
                         [] operation = "getVariablesForFrame" -> "scopes"
                         [] operation = "getObjectProperties" -> "variables"
                         [] operation = "getFrameAndVariables" -> "stackTrace",
                argument |-> argument, held |-> Held(0, "none", <<>>),
                failure |-> "none", settled |-> "pending", value |-> NoValue,
                stopped |-> NotStopped]
  /\ UNCHANGED clientIdleVars

\* the timer of a stopped event runs onStopped: updateEvalScaffold calls
\* getFrameAndVariables(session, threadId), which sends
\* stackTrace {threadId, startFrame: 0, levels: 20}
StoppedPull(bodyThreadId) ==
  /\ client.pc \in {"idle", "settled"}
  /\ client' = [operation |-> "getFrameAndVariables", pc |-> "stackTrace",
                argument |-> stoppedThreadId(bodyThreadId),
                held |-> Held(0, "none", <<>>), failure |-> "none",
                settled |-> "pending", value |-> NoValue,
                stopped |-> bodyThreadId]
  /\ UNCHANGED clientIdleVars

\* getCurrentFrameId: the threads response
GetCurrentFrameIdThreads(response) ==
  /\ client.operation = "getCurrentFrameId" /\ client.pc = "threads"
  /\ Continue(IF response = Rejected THEN Throws("rejected")
              ELSE IF response = NoList THEN Returns(Null, "noList")
              ELSE IF response.list = <<>> THEN Returns(Null, "empty")
              ELSE IF response.list[1] = NullItem THEN Throws("malformed")
              ELSE Awaits("stackTrace", Held(response.list[1].id, "none", <<>>)))
  /\ UNCHANGED clientIdleVars

\* getCurrentFrameId: the stackTrace response
GetCurrentFrameIdStackTrace(response) ==
  /\ client.operation = "getCurrentFrameId" /\ client.pc = "stackTrace"
  /\ Continue(IF response = Rejected THEN Throws("rejected")
              ELSE IF response = NoList THEN Returns(Null, "noList")
              ELSE IF response.list = <<>> THEN Returns(Null, "empty")
              ELSE IF response.list[1] = NullItem THEN Throws("malformed")
              ELSE Returns(Returned("number", response.list[1].id, <<>>,
                                    "none"), "none"))
  /\ UNCHANGED clientIdleVars

\* getVariablesForFrame: the scopes response; without scopes the empty
\* `variables` is returned
GetVariablesForFrameScopes(response) ==
  /\ client.operation = "getVariablesForFrame" /\ client.pc = "scopes"
  /\ Continue(IF response = Rejected THEN Throws("rejected")
              ELSE IF response = NoList
                THEN Returns(Returned("map", 0, <<>>, "none"), "noList")
              ELSE IF response.list = <<>>
                THEN Returns(Returned("map", 0, <<>>, "none"), "empty")
              ELSE IF response.list[1] = NullItem THEN Throws("malformed")
              ELSE Awaits("variables",
                          Held(response.list[1].variablesReference, "none",
                               <<>>)))
  /\ UNCHANGED clientIdleVars

\* variables[v.name] = { value, variablesReference } for each v in turn
RECURSIVE variablesByName(_, _)
variablesByName(list, variables) ==
  IF list = <<>> THEN variables
  ELSE variablesByName(Tail(list),
         assign(variables, Head(list).name,
                [value |-> Head(list).value,
                 variablesReference |-> Head(list).variablesReference]))

\* getVariablesForFrame: the variables response
GetVariablesForFrameVariables(response) ==
  /\ client.operation = "getVariablesForFrame" /\ client.pc = "variables"
  /\ Continue(IF response = Rejected THEN Throws("rejected")
              ELSE IF response = NoList
                THEN Returns(Returned("map", 0, <<>>, "none"), "noList")
              ELSE IF hasNull(response.list) THEN Throws("malformed")
              ELSE Returns(Returned("map", 0,
                                    variablesByName(response.list, <<>>),
                                    "none"),
                           IF response.list = <<>> THEN "empty" ELSE "none"))
  /\ UNCHANGED clientIdleVars

\* getObjectProperties: the variables response; the operation holds its
\* own try and catch
GetObjectPropertiesVariables(response) ==
  /\ client.operation = "getObjectProperties" /\ client.pc = "variables"
  /\ Continue(LET threw == response = Rejected \/ hasNull(response.list)
                  variables == IF threw THEN <<>> ELSE response.list
              IN  Returns(Returned("list", 0,
                                   getObjectProperties(threw, variables),
                                   "none"),
                          IF response = Rejected THEN "rejected"
                          ELSE IF response = NoList THEN "noList"
                          ELSE IF threw \/ \E i \in 1..Len(variables) :
                                             variables[i].name = Undefined
                            THEN "malformed"
                          ELSE IF response.list = <<>> THEN "empty"
                          ELSE "none"))
  /\ UNCHANGED clientIdleVars

\* the loop over the frames left out: targetFrame stays frames[0]
topFrame(frames) == 0
\* index of the first frame of user code (its source is on disk), 0 if none
firstUserFrame(frames) ==
  LET user(i) == frames[i] # NullItem /\ frames[i].source = "exists"
  IN  IF \E i \in 1..Len(frames) : user(i)
        THEN CHOOSE i \in 1..Len(frames) :
               user(i) /\ \A j \in 1..(i - 1) : ~user(j)
        ELSE 0

\* getFrameAndVariables: the stackTrace response; the loop reads
\* frame.source of every frame up to the first frame of user code
GetFrameAndVariablesStackTrace(response) ==
  /\ client.operation = "getFrameAndVariables" /\ client.pc = "stackTrace"
  /\ Continue(LET frames == response.list
                  found == firstUserFrame(frames)
                  last == IF found = 0 THEN Len(frames) ELSE found
                  target == IF found = 0 THEN frames[1] ELSE frames[found]
              IN  IF response = Rejected THEN Throws("rejected")
                  ELSE IF response = NoList THEN Returns(Null, "noList")
                  ELSE IF frames = <<>> THEN Returns(Null, "empty")
                  ELSE IF hasNull(SubSeq(frames, 1, last))
                    THEN Throws("malformed")
                  ELSE Awaits("scopeVariables",
                              Held(target.id,
                                   IF target.source = "none" THEN "none"
                                   ELSE "path", frames)))
  /\ UNCHANGED clientIdleVars

\* getFrameAndVariables: getScopeVariables has returned
GetFrameAndVariablesScopeVariables(variables) ==
  /\ client.operation = "getFrameAndVariables"
  /\ client.pc = "scopeVariables"
  /\ Continue(Returns(Returned("frame", client.held.id, variables,
                               client.held.sourcePath), "none"))
  /\ UNCHANGED clientIdleVars

NextClient ==
  \/ \E operation \in ClientOperations, argument \in ClientArguments :
       ClientCall(operation, argument)
  \/ \E bodyThreadId \in ThreadIds \cup {NoThread} :
       StoppedPull(bodyThreadId)
  \/ \E response \in Responses(ThreadLists) :
       GetCurrentFrameIdThreads(response)
  \/ \E response \in Responses(FrameLists) :
       GetCurrentFrameIdStackTrace(response)
  \/ \E response \in Responses(ScopeLists) :
       GetVariablesForFrameScopes(response)
  \/ \E response \in Responses(VariableLists) :
       GetVariablesForFrameVariables(response)
  \/ \E response \in Responses(VariableLists) :
       GetObjectPropertiesVariables(response)
  \/ \E response \in Responses(FrameLists) :
       GetFrameAndVariablesStackTrace(response)
  \/ \E variables \in ScopeVariableLists :
       GetFrameAndVariablesScopeVariables(variables)

\* The operations of the protocol client, one call after the other, under
\* every outcome of their requests.
SpecClient == Init /\ [][NextClient]_vars

Expressions == {<<>>, <<" ">>, <<"x">>}
ResultTexts == {Undefined, <<>>, <<"5">>, <<"{", "T", "}">>}
ErrorTexts == {Undefined, <<>>, <<"b", "a", "d">>}
TypeTexts == {Undefined, <<"i", "n", "t">>}
\* handles an evaluate response may carry: none, 0, or an object of the graph
ResultHandles == {Absent, <<0>>, <<1>>, <<2>>}
EvaluateResponses ==
  {NoResponse}
  \cup {RejectedWith(b, m) : b \in ErrorTexts, m \in ErrorTexts}
  \cup {AnsweredWith(r, e, ty, h) :
          r \in ResultTexts, e \in ErrorTexts, ty \in TypeTexts,
          h \in ResultHandles}

\* a text that counts as true in a condition
truthy(text) == text # Undefined /\ text # <<>>

ErrorPrefix == <<"E", "r", "r", "o", "r", ":", " ">>
FailedToEvaluate ==
  <<"F", "a", "i", "l", "e", "d", " ", "t", "o", " ", "e", "v", "a", "l", "u", "a", "t", "e", " ">> \o
  <<"e", "x", "p", "r", "e", "s", "s", "i", "o", "n">>
\* the message alone, without the prefix
bareText(message) == message
\* `Error: ${message}`
errorText(message) == ErrorPrefix \o message

\* the modules that export evaluateExpression
Evaluators == {"debug/evaluator.ts", "services/debugService.ts"}

\* evaluateExpression, given the outcome of its evaluate request: what it
\* returns.  Only debug/evaluator.ts looks for the message in the body of
\* the error.
evaluateExpression(evaluator, response) ==
  IF response.outcome = "rejected"
    THEN EvaluationResult(FALSE,
           errorText(IF evaluator = "debug/evaluator.ts"
                        /\ truthy(response.bodyMessage)
                       THEN response.bodyMessage
                     ELSE IF truthy(response.message) THEN response.message
                     ELSE FailedToEvaluate),
           Undefined, Absent)
  ELSE IF truthy(response.result)
    THEN EvaluationResult(FALSE, response.result, response.type,
                          response.variablesReference)
  ELSE IF truthy(response.error)
    THEN EvaluationResult(FALSE, errorText(response.error), Undefined, Absent)
  ELSE NullResult

\* the context mode of the evaluate request, by sender
evaluateContext(sender) ==
  CASE sender = "debug/evaluator.ts" -> "repl"
    [] sender = "services/debugService.ts" -> "watch"
    [] sender = "getMemberCompletions" -> "watch"

\* a handle is there and is not 0
isObjectWhenPresent(variablesReference) ==
  variablesReference # Absent /\ variablesReference[1] >= 0
\* result.variablesReference && result.variablesReference > 0
isObject(variablesReference) ==
  variablesReference # Absent /\ variablesReference[1] > 0

Message(type, result, json, isJson, message) ==
  [type |-> type, result |-> result, json |-> json, isJson |-> isJson,
   message |-> message]
ErrorMessage(message) == Message("error", <<>>, NoOutput, FALSE, message)

\* the panel is built with one of the evaluators, and one of the
\* debuggee's object graphs is behind the handles
EvaluationInit ==
  /\ TrackerInit /\ ClientIdle /\ TextIdle
  /\ evaluation \in [evaluator : Evaluators, pc : {"idle"},
                      expression : {<<>>}, frameId : {0},
                      response : {NoResponse}, returned : {NullResult}]
  /\ posted = NoMessage
  /\ serializerCalls = 0
  /\ memberCompletions = [pc |-> "idle", variablesReference |-> 0,
                          items |-> <<>>]
  /\ evaluateRequests = {}
  /\ graph \in Graphs
  /\ maxDepth = MAX_OBJECT_DEPTH
  /\ args = [variablesReference |-> 0, depth |-> 0]
  /\ stack = <<>>
  /\ output = NoOutput
  /\ requests = 0
  /\ failed = {}

\* the webview sends an evaluate message: an empty expression is ignored,
\* without a session an error is posted, else getCurrentFrameId is called
PanelEvaluate(expression, hasSession) ==
  /\ evaluation.pc \in {"idle", "done"}
  /\ IF trim(expression) = <<>>
       THEN UNCHANGED <<evaluation, posted, serializerCalls>>
       ELSE /\ serializerCalls' = 0
            /\ IF hasSession
                 THEN /\ evaluation' = [evaluation EXCEPT
                                          !.pc = "frameId",
                                          !.expression = expression,
                                          !.frameId = 0,
                                          !.response = NoResponse,
                                          !.returned = NullResult]
                      /\ posted' = NoMessage
                 ELSE /\ evaluation' = [evaluation EXCEPT
                                          !.pc = "done",
                                          !.expression = expression,
                                          !.frameId = 0,
                                          !.response = NoResponse,
                                          !.returned = NullResult]
                      /\ posted' = ErrorMessage(
                           <<"N", "o", " ", "a", "c", "t", "i", "v", "e", " ", "d", "e", "b", "u", "g", " ", "s", "e", "s", "s", "i", "o", "n">>)
  /\ UNCHANGED <<evaluationIdleVars, memberCompletions, evaluateRequests>>

\* getCurrentFrameId returns: null ends the evaluation with an error, a
\* frame id sends the evaluate request of evaluateExpression
PanelFrameId(frameId) ==
  /\ evaluation.pc = "frameId"
  /\ IF frameId = Null
       THEN /\ evaluation' = [evaluation EXCEPT !.pc = "done"]
            /\ posted' = ErrorMessage(
                 <<"D", "e", "b", "u", "g", "g", "e", "r", " ", "i", "s", " ", "n", "o", "t", " ", "p", "a", "u", "s", "e", "d">>)
            /\ UNCHANGED evaluateRequests
       ELSE /\ evaluation' = [evaluation EXCEPT !.pc = "evaluate",
                                                !.frameId = frameId.id]
            /\ evaluateRequests' = evaluateRequests \cup
                 {[sender |-> evaluation.evaluator,
                   context |-> evaluateContext(evaluation.evaluator)]}
            /\ UNCHANGED posted
  /\ UNCHANGED <<evaluationIdleVars, serializerCalls, memberCompletions>>

\* the evaluate request settles and evaluateExpression returns; the panel
\* classifies the result: an object is handed to the serializer, anything
\* else is posted as it is, null is posted as an error
EvaluateResponse(response) ==
  /\ evaluation.pc = "evaluate"
  /\ LET result == evaluateExpression(evaluation.evaluator, response)
     IN  /\ IF result = NullResult
               THEN /\ evaluation' = [evaluation EXCEPT
                                        !.pc = "done", !.response = response,
                                        !.returned = result]
                    /\ posted' = ErrorMessage(FailedToEvaluate)
                    /\ UNCHANGED serializerCalls
             ELSE IF isObject(result.variablesReference)
               THEN /\ evaluation' = [evaluation EXCEPT
                                        !.pc = "serialize",
                                        !.response = response,
                                        !.returned = result]
                    /\ serializerCalls' = serializerCalls + 1
                    /\ UNCHANGED posted
             ELSE /\ evaluation' = [evaluation EXCEPT
                                      !.pc = "done", !.response = response,
                                      !.returned = result]
                  /\ posted' = Message("result", result.result, NoOutput,
                                       FALSE, <<>>)
                  /\ UNCHANGED serializerCalls
  /\ UNCHANGED <<evaluationIdleVars, memberCompletions, evaluateRequests>>

\* serializeObjectToJson returns and its value (json), turned into text by
\* JSON.stringify, is posted
SerializerReturns ==
  /\ evaluation.pc = "serialize"
  /\ evaluation' = [evaluation EXCEPT !.pc = "done"]
  /\ posted' = Message("result", <<>>,
                       serialized(evaluation.returned.variablesReference[1],
                                  0),
                       TRUE, <<>>)
  /\ UNCHANGED <<evaluationIdleVars, serializerCalls, memberCompletions,
                 evaluateRequests>>

\* completionProvider.ts getMemberCompletions: without a session or a frame
\* no request is sent, else the expression is evaluated
MemberCompletions(ready) ==
  /\ memberCompletions.pc \in {"idle", "done"}
  /\ IF ready
       THEN /\ memberCompletions' = [pc |-> "evaluate",
                                     variablesReference |-> 0,
                                     items |-> <<>>]
            /\ evaluateRequests' = evaluateRequests \cup
                 {[sender |-> "getMemberCompletions",
                   context |-> evaluateContext("getMemberCompletions")]}
       ELSE /\ memberCompletions' = [pc |-> "done",
                                     variablesReference |-> 0,
                                     items |-> <<>>]
            /\ UNCHANGED evaluateRequests
  /\ UNCHANGED <<evaluationIdleVars, evaluation, posted, serializerCalls>>

\* getMemberCompletions: the evaluate response; only a handle that is
\* there and not 0 is asked for its variables
MemberEvaluateResponse(response) ==
  /\ memberCompletions.pc = "evaluate"
  /\ memberCompletions' =
       IF response.outcome = "answered"
          /\ response.variablesReference # Absent
          /\ response.variablesReference[1] # 0
         THEN [memberCompletions EXCEPT
                 !.pc = "variables",
                 !.variablesReference = response.variablesReference[1]]
         ELSE [memberCompletions EXCEPT !.pc = "done"]
  /\ UNCHANGED <<evaluationIdleVars, evaluation, posted, serializerCalls,
                 evaluateRequests>>

\* the names of the variables, in order
RECURSIVE names(_)
names(list) ==
  IF list = <<>> THEN <<>> ELSE <<Head(list).name>> \o names(Tail(list))

\* getMemberCompletions: the variables response; one item per variable
\* (its name is kept here), no item after an exception
MemberVariablesResponse(response) ==
  /\ memberCompletions.pc = "variables"
  /\ memberCompletions' =
       [memberCompletions EXCEPT
          !.pc = "done",
          !.items = IF response = Rejected \/ hasNull(response.list)
                      THEN <<>> ELSE names(response.list)]
  /\ UNCHANGED <<evaluationIdleVars, evaluation, posted, serializerCalls,
                 evaluateRequests>>

NextEvaluation ==
  \/ \E expression \in Expressions, hasSession \in BOOLEAN :
       PanelEvaluate(expression, hasSession)
  \/ \E frameId \in {Null} \cup {Returned("number", id, <<>>, "none") :
                                    id \in ClientArguments} :
       PanelFrameId(frameId)
  \/ \E response \in EvaluateResponses : EvaluateResponse(response)
  \/ SerializerReturns
  \/ \E ready \in BOOLEAN : MemberCompletions(ready)
  \/ \E response \in EvaluateResponses : MemberEvaluateResponse(response)
  \/ \E response \in Responses(VariableLists) :
       MemberVariablesResponse(response)

\* The panel's evaluate handler and the member completion, under every
\* outcome of their requests.
SpecEvaluation == EvaluationInit /\ [][NextEvaluation]_vars

\* the evaluation has failed: the request was rejected, or the response
\* carries an error and no result
EvaluationFailed ==
  \/ evaluation.response.outcome = "rejected"
  \/ /\ evaluation.response.outcome = "answered"
     /\ truthy(evaluation.response.error)
     /\ ~truthy(evaluation.response.result)

C19_AlwaysRepl ==
  \A request \in evaluateRequests : request.context = "repl"

\* C20: a result is classified as an object exactly when its handle is
\* there and greater than zero; only then is the serializer called, and
\* otherwise the result text is shown unchanged.
C20_ObjectIffHandle ==
  LET handle == evaluation.returned.variablesReference
      object == handle # Absent /\ handle[1] > 0
  IN  /\ serializerCalls > 0 => object
      /\ posted.type = "result"
           => /\ posted.isJson = object
              /\ serializerCalls = (IF object THEN 1 ELSE 0)
              /\ object => posted.json = serialized(handle[1], 0)
              /\ ~object => posted.result = evaluation.returned.result

\* result "5" with handle 0 is displayed as "5"
C20_FiveShown ==
  /\ evaluation.response.result = <<"5">>
  /\ evaluation.response.variablesReference = <<0>>
  /\ posted = Message("result", <<"5">>, NoOutput, FALSE, <<>>)

\* ------------------------------------------------- the text functions
\* Property names as the adapter displays them: a name, bare or in quotes,
\* with or without white space before it and an annotation after it.
PropertyBases == {<<"C", "o", "u", "n", "t">>, <<"i", "t", "e", "m", "s">>, <<"N", "a", "m", "e">>, <<"a">>}
Quotings == {"none", "double", "single"}
Paddings == {<<>>, <<" ">>}
Annotations ==
  {<<>>, <<" ", "{", "i", "n", "t", "}">>,
   <<" ", "[", "3", "]">>,
   <<"{", "T", "}">>,
   <<" ", "{", "T", "}", " ", "[", "3", "]">>,
   <<" ", "[", "3", "]", " ", "{", "T", "}">>,
   <<" ", " ", "{", "i", "n", "t", "}", " ">>,
   <<" ", "=", " ", "5">>}
propertyName(padding, quoting, base, annotation) ==
  LET quote == CASE quoting = "none" -> <<>>
                 [] quoting = "double" -> <<"\"">>
                 [] quoting = "single" -> <<"'">>
  IN  padding \o quote \o base \o quote \o annotation

\* a text function called with an input, before it returns; `base` is the
\* name the input was built around, if it was
TextCall(function, input, base) ==
  [function |-> function, input |-> input, base |-> base,
   returned |-> FALSE, output |-> <<>>]
CleanPropertyNameCalls ==
  {TextCall("cleanPropertyName",
            propertyName(padding, quoting, base, annotation), base) :
     padding \in Paddings, quoting \in Quotings, base \in PropertyBases,
     annotation \in Annotations}

\* cleanPropertyName returns
ApplyCleanPropertyName ==
  /\ textCall.function = "cleanPropertyName" /\ ~textCall.returned
  /\ textCall' = [textCall EXCEPT
                    !.returned = TRUE,
                    !.output = cleanPropertyName(textCall.input)]
  /\ UNCHANGED <<evalFile, textIdleVars>>

\* String.prototype.includes
includes(s, sub) ==
  \E i \in 1..(Len(s) - Len(sub) + 1) : SubSeq(s, i, i + Len(sub) - 1) = sub

\* s.split(c)[0]
beforeFirst(s, c) ==
  IF indexOf(s, c) = 0 THEN s ELSE SubSeq(s, 1, indexOf(s, c) - 1)

\* type.replace(/\{[^}]*\}/, ''): the first '{' that a '}' follows is
\* removed with everything up to that '}'
removeDebugValue(s) ==
  LET j == indexOf(s, "{")
      rest == SubSeq(s, j + 1, Len(s))
      k == indexOf(rest, "}")
  IN  IF j > 0 /\ k > 0
        THEN SubSeq(s, 1, j - 1) \o SubSeq(rest, k + 1, Len(rest))
        ELSE s

\* the character U+0060, written out
Backtick == "backtick"
\* t.replace(/`\d+/g, ''): every backtick with the digits that follow it
RECURSIVE dropDigits(_)
dropDigits(s) ==
  IF s # <<>> /\ Head(s) \in Digits THEN dropDigits(Tail(s)) ELSE s
RECURSIVE removeArity(_)
removeArity(s) ==
  IF s = <<>> THEN <<>>
  ELSE IF Head(s) = Backtick /\ Len(s) >= 2 /\ s[2] \in Digits
    THEN removeArity(dropDigits(Tail(s)))
  ELSE <<Head(s)>> \o removeArity(Tail(s))

\* the characters of /[#$@!%^&=|\\;]/
InvalidCharacters == {"#", "$", "@", "!", "%", "^", "&", "=", "|", "\\", ";"}
\* the final validation left out
neverInvalid(s) == FALSE
\* /[#$@!%^&=|\\;]/.test(t)
hasInvalidCharacter(s) == \E i \in 1..Len(s) : s[i] \in InvalidCharacters

Dynamic == <<"d", "y", "n", "a", "m", "i", "c">>

\* scaffoldGenerator.ts sanitizeType; Undefined is a missing type
sanitizeType(type) ==
  LET t == trim(removeDebugValue(type))
      unqualified == IF includes(t, <<",">>) /\ ~includes(t, <<"<">>)
                       THEN trim(beforeFirst(t, ","))
                       ELSE t
      plain == removeArity(unqualified)
  IN  IF type \in {Undefined, <<>>, <<"<", "e", "r", "r", "o", "r", ">">>,
                   <<"v", "o", "i", "d">>}
        THEN Dynamic
      ELSE IF t = <<>> THEN Dynamic
      ELSE IF includes(t, <<"<", ">">>) \/ startsWith(t, <<"<">>) THEN Dynamic
      ELSE IF hasInvalidCharacter(plain) THEN Dynamic
      ELSE IF plain = <<>> THEN Dynamic
      ELSE plain

\* Type strings: every text of up to MaxTypeLen characters over the
\* characters the function looks at, type names with and without an
\* assembly after them, and the missing type.
MaxTypeLen == 3
TypeCharacters ==
  {"a", "<", ">", ",", "{", "}", Backtick, "1", " "} \cup InvalidCharacters
ShortTypes == UNION {[1..n -> TypeCharacters] : n \in 0..MaxTypeLen}
TypeNames ==
  {<<"i", "n", "t">>,
   <<"L", "i", "s", "t", "<", "i", "n", "t", ">">>,
   <<"D", "i", "c", "t", "i", "o", "n", "a", "r", "y", "<", "s", "t", "r", "i", "n", "g", ",", " ", "i", "n", "t", ">">>,
   <<"L", "i", "s", "t", Backtick, "1">>,
   <<"i", "n", "t", "?", " ", "{", "5", "}">>}
Assemblies == {<<"m", "s", "c", "o", "r", "l", "i", "b">>, <<"S", "y", "s", "t", "e", "m">>}
QualifiedTypes ==
  {type \o <<",", " ">> \o assembly :
     type \in TypeNames, assembly \in Assemblies}
SpecialTypes ==
  {Undefined, <<"<", "e", "r", "r", "o", "r", ">">>,
   <<"v", "o", "i", "d">>,
   <<"<", ">", "f", "_", "_", "A", "n", "o", "n", "y", "m", "o", "u", "s", "T", "y", "p", "e", "0">>,
   <<"<", "M", "a", "i", "n", ">", "d", "_", "_", "0">>}
Types == ShortTypes \cup TypeNames \cup QualifiedTypes \cup SpecialTypes

\* the text before the first comma that is outside angle brackets
beforeOuterComma(s) ==
  LET count(c, n) == Cardinality({i \in 1..n : s[i] = c})
      outer(i) == s[i] = "," /\ count("<", i) = count(">", i)
  IN  IF \E i \in 1..Len(s) : outer(i)
        THEN SubSeq(s, 1, (CHOOSE i \in 1..Len(s) :
                             outer(i) /\ \A j \in 1..(i - 1) : ~outer(j)) - 1)
        ELSE s

SanitizeTypeCalls == {TextCall("sanitizeType", type, <<>>) : type \in Types}

\* sanitizeType returns
ApplySanitizeType ==
  /\ textCall.function = "sanitizeType" /\ ~textCall.returned
  /\ textCall' = [textCall EXCEPT
                    !.returned = TRUE,
                    !.output = sanitizeType(textCall.input)]
  /\ UNCHANGED <<evalFile, textIdleVars>>

\* The display texts of primitive values: every text of up to MaxValueLen
\* characters, and some longer ones.
MaxValueLen == 3
ValueCharacters == {"1", "-", ".", " ", "\n", "\"", "a"}
ShortValues == UNION {[1..n -> ValueCharacters] : n \in 0..MaxValueLen}
ValueWords ==
  {<<"t", "r", "u", "e">>, <<"f", "a", "l", "s", "e">>,
   <<"n", "u", "l", "l">>, <<"T", "r", "u", "e">>,
   <<"\"", "t", "r", "u", "e", "\"">>, <<"\"", "\"", "a", "\"", "\"">>,
   <<"I", "n", "f", "i", "n", "i", "t", "y">>, <<"0", "x", "1", "f">>,
   <<"1", "e", "3">>, <<"1", "2", "a">>, <<"'", "a", "'">>}
ParsePrimitiveValueCalls ==
  {TextCall("parsePrimitiveValue", value, <<>>) :
     value \in ShortValues \cup ValueWords}

\* parsePrimitiveValue returns
ApplyParsePrimitiveValue ==
  /\ textCall.function = "parsePrimitiveValue" /\ ~textCall.returned
  /\ textCall' = [textCall EXCEPT
                    !.returned = TRUE,
                    !.output = parsePrimitiveValue(textCall.input)]
  /\ UNCHANGED <<evalFile, textIdleVars>>

\* ----------------------------------------------- the scaffold as a text
\* The scaffold text is a sequence whose elements are characters and, for
\* the fixed lines of the template, one element per fixed piece.
SCAFFOLD_HEADER == "// DebugSharp: auto-generated evaluation context"
EXPR_START == "// --- expression start ---"
EXPR_END == "// --- expression end ---"
NewLine == "\n"
Indent == <<" ", " ", " ", " ">>
Pragma == "#pragma warning disable"
Nullable == "#nullable disable"
ClassOpen == "class _ { void _() {"
ClassClose == "}}"
DefaultInit == " = default!;"

\* UTF-16 code unit of the first character of an element
CodeUnit ==
  (NewLine :> 10) @@ (" " :> 32) @@ (EXPR_START :> 47) @@ (";" :> 59)
  @@ ("A" :> 65) @@ ("a" :> 97) @@ ("g" :> 103)
  @@ ("i" :> 105) @@ ("n" :> 110) @@ ("s" :> 115) @@ ("u" :> 117)

\* a < b for strings: the order Array.prototype.sort uses without comparator
RECURSIVE lessThan(_, _)
lessThan(a, b) ==
  IF b = <<>> THEN FALSE
  ELSE IF a = <<>> THEN TRUE
  ELSE IF Head(a) = Head(b) THEN lessThan(Tail(a), Tail(b))
  ELSE CodeUnit[Head(a)] < CodeUnit[Head(b)]

\* [...new Set(list)]: each element once, in the order of first occurrence
unique(list) ==
  LET first(i) == \A j \in 1..(i - 1) : list[j] # list[i]
      RECURSIVE from(_)
      from(i) ==
        IF i > Len(list) THEN <<>>
        ELSE IF first(i) THEN <<list[i]>> \o from(i + 1)
        ELSE from(i + 1)
  IN from(1)

\* the list left as it is
unsorted(list) == list

\* Array.prototype.sort on a list of distinct strings
RECURSIVE sort(_)
sort(list) ==
  IF list = <<>> THEN <<>>
  ELSE LET least == CHOOSE i \in 1..Len(list) :
                      \A j \in 1..Len(list) :
                        j = i \/ lessThan(list[i], list[j])
           rest == [k \in 1..(Len(list) - 1) |->
                      IF k < least THEN list[k] ELSE list[k + 1]]
       IN <<list[least]>> \o sort(rest)

\* Array.prototype.join
RECURSIVE join(_, _)
join(list, separator) ==
  IF list = <<>> THEN <<>>
  ELSE IF Len(list) = 1 THEN list[1]
  ELSE list[1] \o separator \o join(Tail(list), separator)

\* `    ${v.type} ${v.name} = default!;`
declaration(v) == Indent \o v.type \o <<" ">> \o v.name \o <<DefaultInit>>

\* generateScaffold as the text it returns
generateScaffoldText(variables, usings, userExpression) ==
  LET usingBlock == join(sort(unique(usings)), <<NewLine>>)
      varDeclarations ==
        join([i \in 1..Len(variables) |-> declaration(variables[i])],
             <<NewLine>>)
      varSection ==
        IF varDeclarations # <<>> THEN <<NewLine>> \o varDeclarations
        ELSE <<>>
      exprContent ==
        IF userExpression # <<>> THEN <<NewLine>> \o userExpression
        ELSE <<NewLine>> \o Indent
      usingSection ==
        IF usingBlock # <<>> THEN <<NewLine>> \o usingBlock \o <<NewLine>>
        ELSE <<NewLine>>
  IN <<SCAFFOLD_HEADER, NewLine, Pragma, NewLine, Nullable>>
       \o usingSection
       \o <<NewLine, ClassOpen>> \o varSection
       \o <<NewLine>> \o Indent \o <<EXPR_START>> \o exprContent
       \o <<NewLine>> \o Indent \o <<EXPR_END, NewLine, ClassClose, NewLine>>

\* String.prototype.lastIndexOf, 0 if there is none
lastIndexOf(s, c) ==
  IF \E i \in 1..Len(s) : s[i] = c
    THEN CHOOSE i \in 1..Len(s) :
           s[i] = c /\ \A j \in (i + 1)..Len(s) : s[j] # c
    ELSE 0

\* String.prototype.indexOf(c, from), 0 if there is none
indexOfFrom(s, c, from) ==
  IF \E i \in from..Len(s) : s[i] = c
    THEN CHOOSE i \in from..Len(s) :
           s[i] = c /\ \A j \in from..(i - 1) : s[j] # c
    ELSE 0

extractUserExpression(content) ==
  LET startIdx == indexOf(content, EXPR_START)
      endIdx == lastIndexOf(content, EXPR_END)
      afterStart == indexOfFrom(content, NewLine, startIdx)
  IN IF startIdx = 0 \/ endIdx = 0 \/ endIdx <= startIdx
       THEN trim(content)
     ELSE IF afterStart = 0 \/ afterStart >= endIdx THEN <<>>
     ELSE trimEnd(SubSeq(content, afterStart + 1, endIdx - 1))

\* the content mistaken for a scaffold file whatever it begins with
anyContent(content) == TRUE
isScaffoldFile(content) == startsWith(content, <<SCAFFOLD_HEADER>>)

\* String.prototype.split('\n')
RECURSIVE lines(_)
lines(text) ==
  LET newLine == indexOf(text, NewLine)
  IN IF newLine = 0 THEN <<text>>
     ELSE <<SubSeq(text, 1, newLine - 1)>>
            \o lines(SubSeq(text, newLine + 1, Len(text)))

\* line.replace(/\/\/.*$/, ''): the line up to its first '//'; the header
\* and the markers are comments
withoutComment(line) ==
  LET comment(i) == \/ line[i] \in {SCAFFOLD_HEADER, EXPR_START, EXPR_END}
                    \/ i < Len(line) /\ line[i] = "/" /\ line[i + 1] = "/"
  IN  IF \E i \in 1..Len(line) : comment(i)
        THEN SubSeq(line, 1, (CHOOSE i \in 1..Len(line) :
                                comment(i) /\ \A j \in 1..(i - 1) : ~comment(j))
                             - 1)
        ELSE line

\* extension.ts parseExpression, after the expression text is chosen:
\* comments and empty lines are removed, every line is trimmed
stripComments(expressionText) ==
  LET split == lines(expressionText)
      cleaned == [i \in 1..Len(split) |-> trim(withoutComment(split[i]))]
      nonEmpty(line) == Len(line) > 0
  IN  trim(join(SelectSeq(cleaned, nonEmpty), <<NewLine>>))

\* extension.ts parseExpression
parseExpression(rawText) ==
  stripComments(IF isScaffoldFile(rawText) THEN extractUserExpression(rawText)
                ELSE rawText)

\* The buffers of the editor: every text of up to MaxBufferLen elements
\* over the header, the two markers and some characters.
MaxBufferLen == 4
BufferElements ==
  {SCAFFOLD_HEADER, EXPR_START, EXPR_END, NewLine, " ", "x", "/"}
Buffers == UNION {[1..n -> BufferElements] : n \in 0..MaxBufferLen}
ExtractUserExpressionCalls ==
  {TextCall("extractUserExpression", content, <<>>) : content \in Buffers}
ParseExpressionCalls ==
  {TextCall("parseExpression", content, <<>>) : content \in Buffers}

\* extractUserExpression returns
ApplyExtractUserExpression ==
  /\ textCall.function = "extractUserExpression" /\ ~textCall.returned
  /\ textCall' = [textCall EXCEPT
                    !.returned = TRUE,
                    !.output = extractUserExpression(textCall.input)]
  /\ UNCHANGED <<evalFile, textIdleVars>>

\* parseExpression returns
ApplyParseExpression ==
  /\ textCall.function = "parseExpression" /\ ~textCall.returned
  /\ textCall' = [textCall EXCEPT
                    !.returned = TRUE,
                    !.output = parseExpression(textCall.input)]
  /\ UNCHANGED <<evalFile, textIdleVars>>

\* the using directives, variables and expressions the scaffold is built of
UsingA == <<"u", "s", "i", "n", "g", " ", "A", ";">>
UsingLowerA == <<"u", "s", "i", "n", "g", " ", "a", ";">>
UsingMarked == <<"u", "s", "i", "n", "g", " ", "A", " ", EXPR_START, ";">>
Usings == {UsingA, UsingLowerA, UsingMarked}
MaxUsings == 2
UsingLists == UNION {[1..n -> Usings] : n \in 0..MaxUsings}
IntX == [name |-> <<"x">>, type |-> <<"i", "n", "t">>]
DynamicY == [name |-> <<"y">>, type |-> Dynamic]
MarkedS == [name |-> <<"s">>, type |-> <<EXPR_START>>]
ScaffoldVariableLists == {<<>>, <<IntX>>, <<IntX, DynamicY>>, <<MarkedS, IntX>>}
UserExpressions ==
  { <<>>, <<"x">>, <<" ", "x">>, <<"x", " ", NewLine>>,
    <<"a", NewLine, "b">>, <<"x", NewLine, EXPR_END>>, <<EXPR_START>> }

GenerateScaffoldCalls ==
  { TextCall("generateScaffold",
             [variables |-> v, usings |-> u, other |-> o,
              userExpression |-> e], <<>>) :
      v \in ScaffoldVariableLists, u \in UsingLists, o \in UsingLists,
      e \in UserExpressions }

\* generateScaffold(variables, usings, e), the same call with the other
\* usings list, and extractUserExpression of the first text
ApplyGenerateScaffold ==
  /\ textCall.function = "generateScaffold"
  /\ ~textCall.returned
  /\ LET in == textCall.input
         content ==
           generateScaffoldText(in.variables, in.usings, in.userExpression)
     IN textCall' =
          [textCall EXCEPT
             !.returned = TRUE,
             !.output =
               [content |-> content,
                other |-> generateScaffoldText(in.variables, in.other,
                                               in.userExpression),
                expression |-> extractUserExpression(content)]]
  /\ UNCHANGED <<evalFile, textIdleVars>>

\* ------------------------------------------- the variables of a pull
\* getScopeVariables as a function of the adapter's responses: the scopes
\* response, one variables response per scope and the variables response
\* for the handle of 'this'. A response is ok or rejected.
Letters ==
  {"C", "R", "S", "V", "a", "b", "c", "e", "h", "i", "m", "n", "r", "s", "t",
   "w", "x", "y"}
IdentifierStart == Letters \cup {"_", "@"}
WordCharacters == Letters \cup Digits \cup {"_"}

\* /^[a-zA-Z_@]\w*$/.test(name)
isValidCSharpIdentifier(name) ==
  /\ name # <<>>
  /\ name[1] \in IdentifierStart
  /\ \A i \in 2..Len(name) : name[i] \in WordCharacters

\* rawName.split(/[\s{\[]/)[0].trim()
identifierPart(rawName) ==
  LET stop(i) == rawName[i] \in WhiteSpace \cup {"{", "["}
  IN IF \E i \in 1..Len(rawName) : stop(i)
       THEN trim(SubSeq(rawName, 1,
                        (CHOOSE i \in 1..Len(rawName) :
                           stop(i) /\ \A j \in 1..(i - 1) : ~stop(j)) - 1))
       ELSE trim(rawName)

\* seenNames.has(name)
seenNames(variables, name) ==
  \E i \in 1..Len(variables) : variables[i].name = name

\* the name is pushed whether it was seen or not
pushVariable(variables, rawName, type) ==
  LET name == identifierPart(rawName)
  IN IF name = <<>> \/ Head(name) = "$" \/ ~isValidCSharpIdentifier(name)
       THEN variables
       ELSE Append(variables, [name |-> name, type |-> sanitizeType(type)])

addVariable(variables, rawName, type) ==
  LET name == identifierPart(rawName)
  IN IF name = <<>> \/ Head(name) = "$" \/ seenNames(variables, name)
          \/ ~isValidCSharpIdentifier(name)
       THEN variables
       ELSE Append(variables, [name |-> name, type |-> sanitizeType(type)])

This == <<"t", "h", "i", "s">>
RawView == <<"R", "a", "w", " ", "V", "i", "e", "w">>
StaticMembers ==
  <<"S", "t", "a", "t", "i", "c", " ", "m", "e", "m", "b", "e", "r", "s">>

\* the member passes the tests of expandThisMembers other than seenNames
memberDeclared(member) ==
  LET name == identifierPart(member.name)
  IN name # <<>> /\ name # RawView /\ name # StaticMembers
       /\ isValidCSharpIdentifier(name)

RECURSIVE expandThisMembers(_, _)
expandThisMembers(variables, response) ==
  IF ~response.ok \/ response.variables = <<>> THEN variables
  ELSE LET member == Head(response.variables)
           name == identifierPart(member.name)
           rest == [response EXCEPT !.variables = Tail(@)]
       IN IF ~memberDeclared(member) \/ seenNames(variables, name)
            THEN expandThisMembers(variables, rest)
            ELSE expandThisMembers(
                   Append(variables,
                          [name |-> name, type |-> sanitizeType(member.type)]),
                   rest)

\* the inner loop of getScopeVariables over the variables of one scope
RECURSIVE scopeVariables(_, _, _)
scopeVariables(variables, list, members) ==
  IF list = <<>> THEN variables
  ELSE LET v == Head(list)
       IN IF v.name = This /\ v.variablesReference > 0
            THEN scopeVariables(expandThisMembers(variables, members),
                                Tail(list), members)
            ELSE scopeVariables(addVariable(variables, v.name, v.type),
                                Tail(list), members)

\* the loop of getScopeVariables over the scopes; a rejected variables
\* request ends it with the variables collected so far
RECURSIVE allScopeVariables(_, _, _)
allScopeVariables(variables, scopes, members) ==
  IF scopes = <<>> THEN variables
  ELSE LET scope == Head(scopes)
       IN IF scope.variablesReference <= 0
            THEN allScopeVariables(variables, Tail(scopes), members)
          ELSE IF ~scope.ok THEN variables
          ELSE allScopeVariables(
                 scopeVariables(variables, scope.variables, members),
                 Tail(scopes), members)

getScopeVariables(responses) ==
  IF ~responses.ok THEN <<>>
  ELSE allScopeVariables(<<>>, responses.scopes, responses.members)

\* the adapter's variables: name as displayed, type, handle (0: none)
IntType == <<"i", "n", "t">>
StrType == <<"s", "t", "r">>
DapVariable(name, type, variablesReference) ==
  [name |-> name, type |-> type, variablesReference |-> variablesReference]
ThisHandle == 7
XInt == DapVariable(<<"x">>, IntType, 0)
XStr == DapVariable(<<"x", " ", "{", "s", "}">>, StrType, 0)
YStr == DapVariable(<<"y">>, StrType, 0)
ThisObject == DapVariable(This, <<"C">>, ThisHandle)
ThisValue == DapVariable(This, IntType, 0)
ReturnValue == DapVariable(<<"$", "r">>, IntType, 0)
MInt == DapVariable(<<"m">>, IntType, 0)
RawViewMember == DapVariable(RawView, <<>>, 8)

\* the variables one scope may hold
ScopeContents ==
  { <<>>, <<XInt>>, <<XInt, YStr>>, <<YStr, XStr>>, <<ThisObject, XStr>>,
    <<XInt, ThisObject, MInt>>, <<ThisValue, ReturnValue>> }
ScopeReplies ==
  [variablesReference : {1}, ok : {TRUE}, variables : ScopeContents]
    \cup { [variablesReference |-> 0, ok |-> TRUE, variables |-> <<XStr>>],
           [variablesReference |-> 1, ok |-> FALSE, variables |-> <<>>] }
MemberReplies ==
  { [ok |-> FALSE, variables |-> <<>>],
    [ok |-> TRUE, variables |-> <<MInt, XStr>>],
    [ok |-> TRUE, variables |-> <<YStr, RawViewMember, MInt>>] }
MaxScopes == 2
ScopeReplyLists == UNION {[1..n -> ScopeReplies] : n \in 0..MaxScopes}

GetScopeVariablesCalls ==
  { TextCall("getScopeVariables",
             [ok |-> TRUE, scopes |-> scopes, members |-> members], <<>>) :
      scopes \in ScopeReplyLists, members \in MemberReplies }
    \cup { TextCall("getScopeVariables",
                    [ok |-> FALSE, scopes |-> <<>>,
                     members |-> [ok |-> FALSE, variables |-> <<>>]], <<>>) }

\* getScopeVariables returns
ApplyGetScopeVariables ==
  /\ textCall.function = "getScopeVariables" /\ ~textCall.returned
  /\ textCall' = [textCall EXCEPT
                    !.returned = TRUE,
                    !.output = getScopeVariables(textCall.input)]
  /\ UNCHANGED <<evalFile, textIdleVars>>

\* ------------------------------------------ the published variables
\* The variables of the first scope as getVariablesForFrame maps them and
\* as the inlay hints show them.
MAX_INLINE_VALUE_LENGTH == 100
ShownLength == 50
ObjectText == <<"{", "O", "b", "j", "e", "c", "t", "}">>
Ellipsis == <<".", ".", ".">>

\* the value as the adapter sent it, never an object
adapterValue(varInfo) == [displayValue |-> varInfo.value, isObject |-> FALSE]

formatVariableValue(varInfo) ==
  IF varInfo.variablesReference > 0
    THEN [displayValue |-> ObjectText, isObject |-> TRUE]
  ELSE [displayValue |->
          IF Len(varInfo.value) > MAX_INLINE_VALUE_LENGTH
            THEN SubSeq(varInfo.value, 1, ShownLength) \o Ellipsis
            ELSE varInfo.value,
        isObject |-> FALSE]

\* updateInlayHintData: objectReferences, by the name before the first space
RECURSIVE objectReferencesOf(_, _)
objectReferencesOf(variables, references) ==
  IF variables = <<>> THEN references
  ELSE LET varInfo == Head(variables).value
           varName == beforeSpace(Head(variables).key)
       IN objectReferencesOf(
            Tail(variables),
            IF varInfo.variablesReference > 0
              THEN assign(references, varName, varInfo.variablesReference)
              ELSE references)

\* the variables of provideInlayHints on a line that names all of them
varsOnLine(variables) ==
  [i \in 1..Len(variables) |->
     [name |-> beforeSpace(variables[i].key),
      value |-> formatVariableValue(variables[i].value).displayValue,
      isObject |-> formatVariableValue(variables[i].value).isObject]]

\* a display value of n characters
ValueOfLength(n) == [i \in 1..n |-> "a"]
Count == Prop(<<"c">>, <<"3">>, 0)
CountAgain == Prop(<<"c">>, <<"4">>, 0)
Items == Prop(<<"i">>, <<"{", "i", "n", "t", "[", "3", "]", "}">>, 42)
ShortText == Prop(<<"s">>, ValueOfLength(MAX_INLINE_VALUE_LENGTH), 0)
LongText == Prop(<<"t">>, ValueOfLength(MAX_INLINE_VALUE_LENGTH + 1), 0)
FrameVariables == {Count, CountAgain, Items, ShortText, LongText}
MaxFrameVariables == 3
FrameVariableLists ==
  UNION {[1..n -> FrameVariables] : n \in 1..MaxFrameVariables}

PublishCalls ==
  { TextCall("publish", list, <<>>) : list \in FrameVariableLists }

\* getVariablesForFrame maps the variables response of the first scope,
\* updateInlayHintData takes the map and provideInlayHints formats it
ApplyPublish ==
  /\ textCall.function = "publish" /\ ~textCall.returned
  /\ LET variables == variablesByName(textCall.input, <<>>)
     IN textCall' =
          [textCall EXCEPT
             !.returned = TRUE,
             !.output =
               [variables |-> variables,
                objectReferences |-> objectReferencesOf(variables, <<>>),
                hints |-> varsOnLine(variables)]]
  /\ UNCHANGED <<evalFile, textIdleVars>>

\* one of the text functions has been called with one of its inputs
InitText ==
  /\ TrackerInit /\ SerializerIdle /\ ClientIdle /\ EvaluationIdle
  /\ \/ textCall \in CleanPropertyNameCalls
     \/ textCall \in SanitizeTypeCalls
     \/ textCall \in GenerateScaffoldCalls
     \/ textCall \in GetScopeVariablesCalls
     \/ textCall \in PublishCalls
     \/ textCall \in ParsePrimitiveValueCalls
     \/ textCall \in ExtractUserExpressionCalls
     \/ textCall \in ParseExpressionCalls
  /\ evalFile = NoFile

NextText ==
  \/ ApplyCleanPropertyName
  \/ ApplySanitizeType
  \/ ApplyGenerateScaffold
  \/ ApplyGetScopeVariables
  \/ ApplyPublish
  \/ ApplyParsePrimitiveValue
  \/ ApplyExtractUserExpression
  \/ ApplyParseExpression

\* The text functions: one of them is applied to one input of its set.
SpecText == InitText /\ [][NextText]_vars

\* C30: cleaning a property name strips a trailing '{...}' annotation, a
\* trailing '[...]' annotation, everything from the first space and one
\* layer of surrounding quotes, so that the name itself is left: 'Count
\* {int}' gives 'Count', 'items [3]' gives 'items', '"Name"' gives 'Name'.
C30_NameCleaned ==
  (textCall.function = "cleanPropertyName" /\ textCall.returned)
  => /\ textCall.output = textCall.base
     /\ textCall.input = <<"C", "o", "u", "n", "t", " ", "{", "i", "n", "t", "}">>
          => textCall.output = <<"C", "o", "u", "n", "t">>
     /\ textCall.input = <<"i", "t", "e", "m", "s", " ", "[", "3", "]">>
          => textCall.output = <<"i", "t", "e", "m", "s">>
     /\ textCall.input = <<"\"", "N", "a", "m", "e", "\"">>
          => textCall.output = <<"N", "a", "m", "e">>

\* a quoted name with an annotation has been cleaned
C30_QuotedAnnotated ==
  /\ textCall.function = "cleanPropertyName"
  /\ textCall.input = <<" ", "\"", "N", "a", "m", "e", "\"", " ", "{", "T", "}", " ", "[", "3", "]">>
  /\ textCall.output = <<"N", "a", "m", "e">>

\* C25: sanitizeType is total: for every type text and for a missing type
\* it returns a text that is not empty and holds none of the characters
\* # $ @ ! % ^ & = | \ ;
C25_SanitizeTypeTotal ==
  (textCall.function = "sanitizeType" /\ textCall.returned)
  => /\ textCall.output # <<>>
     /\ \A i \in 1..Len(textCall.output) :
          textCall.output[i] \notin InvalidCharacters

\* a type that holds one of the characters has been turned into dynamic
C25_InvalidToDynamic ==
  /\ textCall.function = "sanitizeType"
  /\ textCall.input = <<"a", "#", "a">>
  /\ textCall.output = Dynamic

\* C26: sanitizeType cuts a type at the first comma outside angle brackets:
\* 'List<int>, mscorlib' and 'Dictionary<string, int>, System' lose the
\* assembly, the commas inside the angle brackets are kept.
C26_AssemblyCutOff ==
  (/\ textCall.function = "sanitizeType" /\ textCall.returned
   /\ textCall.input \in QualifiedTypes)
  => textCall.output = sanitizeType(beforeOuterComma(textCall.input))


\* the elements of a list, as a set
elements(list) == {list[i] : i \in 1..Len(list)}

GenerateScaffoldReturned ==
  textCall.function = "generateScaffold" /\ textCall.returned

\* C21: for every variable list, usings list and expression e,
\* extractUserExpression(generateScaffold(variables, usings, e)) is e with
\* its trailing whitespace trimmed.
C21_RoundTrip ==
  GenerateScaffoldReturned
    => textCall.output.expression = trimEnd(textCall.input.userExpression)

\* C29: two calls of generateScaffold whose usings lists hold the same set
\* of directives return the same text, and the text holds each directive
\* once, in ascending order, on the lines after '#nullable disable'.
C29_UsingsAsSet ==
  GenerateScaffoldReturned
    => LET in == textCall.input
           emitted == lines(textCall.output.content)
           count == Cardinality(elements(in.usings))
       IN /\ elements(in.usings) = elements(in.other)
               => textCall.output.content = textCall.output.other
          /\ \A i \in 1..count : emitted[3 + i] \in elements(in.usings)
          /\ \A i \in 1..count : \A j \in 1..count :
               i < j => lessThan(emitted[3 + i], emitted[3 + j])
          /\ emitted[4 + count] = <<>>

\* two lists with the same directives in opposite orders gave the same text
C29_ReorderedRepeated ==
  /\ GenerateScaffoldReturned
  /\ textCall.input.usings = <<UsingLowerA, UsingA>>
  /\ textCall.input.other = <<UsingA, UsingLowerA>>
  /\ textCall.output.content = textCall.output.other


\* ------------------------------------------------ the evaluation file
\* evalFile: created (tempFilePath is set and the file exists), open (it is
\* one of workspace.textDocuments), content (the text of the document or of
\* the file), region (length of the text between the marker lines, where the
\* user types). History: runs and edits so far, ran (updateEvalScaffold has
\* run since the last edit), first (the expression extracted before the
\* first of these runs), before and wasOpen (content and open when the last
\* run started).
MaxRuns == 2
MaxEdits == 2

\* the usings lists getSourceFileUsings may return at a stop
PulledUsings == {<<>>, <<UsingLowerA, UsingA>>, <<UsingMarked>>}
\* the variable lists getScopeVariables may return at a stop
PulledVariables == {<<>>, <<IntX>>, <<MarkedS, IntX>>}

\* what follows the expression in a generated scaffold
ExpressionTail ==
  <<NewLine>> \o Indent \o <<EXPR_END, NewLine, ClassClose, NewLine>>

\* what the user types between the marker lines
UserTexts ==
  { <<>>, <<"x">>, Indent \o <<"x">>, <<"x", " ", NewLine>>,
    <<"x", NewLine, EXPR_END>> }

CreateTempFile ==
  /\ ~evalFile.created
  /\ evalFile' = [NoFile EXCEPT
                    !.created = TRUE,
                    !.content = generateScaffoldText(<<>>, <<>>, <<>>),
                    !.region = Len(Indent)]
  /\ UNCHANGED <<textCall, textIdleVars>>

\* the user opens the file in an editor
OpenEvalFile ==
  /\ evalFile.created /\ ~evalFile.open
  /\ evalFile' = [evalFile EXCEPT !.open = TRUE]
  /\ UNCHANGED <<textCall, textIdleVars>>

\* the user saves and closes the editor
CloseEvalFile ==
  /\ evalFile.open
  /\ evalFile' = [evalFile EXCEPT !.open = FALSE]
  /\ UNCHANGED <<textCall, textIdleVars>>

\* the user replaces the text between the marker lines
UserEdit ==
  /\ evalFile.open
  /\ evalFile.edits < MaxEdits
  /\ \E text \in UserTexts :
       LET content == evalFile.content
           kept == Len(content) - Len(ExpressionTail) - evalFile.region
       IN evalFile' =
            [evalFile EXCEPT
               !.content = SubSeq(content, 1, kept) \o text \o ExpressionTail,
               !.region = Len(text),
               !.edits = @ + 1,
               !.ran = FALSE]
  /\ UNCHANGED <<textCall, textIdleVars>>

\* the regenerated scaffold, written whole
rewrittenContent(currentContent, open, variables, usings) ==
  generateScaffoldText(variables, usings,
                       IF isScaffoldFile(currentContent)
                         THEN extractUserExpression(currentContent)
                         ELSE trim(currentContent))

\* the text updateEvalScaffold leaves in the buffer
updatedContent(currentContent, open, variables, usings) ==
  LET userExpression ==
        IF isScaffoldFile(currentContent)
          THEN extractUserExpression(currentContent)
          ELSE trim(currentContent)
      newContent == generateScaffoldText(variables, usings, userExpression)
      currentStartIdx == indexOf(currentContent, EXPR_START)
      newStartIdx == indexOf(newContent, EXPR_START)
  IN IF newContent = currentContent THEN currentContent
     ELSE IF open /\ currentStartIdx # 0 /\ newStartIdx # 0
       THEN SubSeq(newContent, 1, newStartIdx - 1)
              \o SubSeq(currentContent, currentStartIdx, Len(currentContent))
     ELSE newContent

\* the length of the text between the marker lines after updateEvalScaffold
updatedRegion(file, content) ==
  LET expression == extractUserExpression(file.content)
  IN IF content = file.content \/ file.open THEN file.region
     ELSE IF expression = <<>> THEN Len(Indent)
     ELSE Len(expression)

UpdateEvalScaffold ==
  /\ evalFile.created
  /\ evalFile.runs < MaxRuns
  /\ \E variables \in PulledVariables, usings \in PulledUsings :
       LET content == updatedContent(evalFile.content, evalFile.open,
                                     variables, usings)
       IN evalFile' =
            [evalFile EXCEPT
               !.content = content,
               !.region = updatedRegion(evalFile, content),
               !.runs = @ + 1,
               !.ran = TRUE,
               !.first = IF evalFile.ran THEN @
                         ELSE extractUserExpression(evalFile.content),
               !.before = evalFile.content,
               !.wasOpen = evalFile.open]
  /\ UNCHANGED <<textCall, textIdleVars>>

NextFile ==
  \/ CreateTempFile
  \/ OpenEvalFile
  \/ CloseEvalFile
  \/ UserEdit
  \/ UpdateEvalScaffold

\* The evaluation file: created, opened and closed, edited between the
\* marker lines, and regenerated at stops.
SpecFile == Init /\ [][NextFile]_vars

\* number of occurrences of c in s
occurrences(s, c) == Cardinality({i \in 1..Len(s) : s[i] = c})

\* String.prototype.endsWith
endsWith(s, suffix) ==
  Len(s) >= Len(suffix)
    /\ SubSeq(s, Len(s) - Len(suffix) + 1, Len(s)) = suffix

\* the buffer from its expression-start marker to its end
fromStart(content) ==
  SubSeq(content, indexOf(content, EXPR_START), Len(content))

\* C22: after each run of updateEvalScaffold since the user's last edit,
\* whatever variables and usings were pulled, the expression extracted from
\* the buffer is the expression extracted before the first of these runs.
C22_ExpressionSurvives ==
  evalFile.ran => extractUserExpression(evalFile.content) = evalFile.first

\* C23 as stated: updateEvalScaffold leaves every byte from the
\* expression-start marker to the end of the buffer unchanged, whether the
\* buffer is open as a document or only on disk.
C23_TailUnchanged ==
  evalFile.ran /\ includes(evalFile.before, <<EXPR_START>>)
    => endsWith(evalFile.content, fromStart(evalFile.before))

\* C23: when the buffer is open as a document, updateEvalScaffold leaves
\* every byte from the first expression-start marker to the end of the
\* buffer unchanged; when it is only on disk, the file is rewritten whole.
\* The buffer then ends with the start marker line, the expression
\* extracted before the run (four spaces if it is empty) and the end marker
\* line.
C23_TailUnchangedWhenOpen ==
  /\ evalFile.ran /\ evalFile.wasOpen
       /\ includes(evalFile.before, <<EXPR_START>>)
       => endsWith(evalFile.content, fromStart(evalFile.before))
  /\ evalFile.ran /\ ~evalFile.wasOpen
       => LET expression ==
                IF isScaffoldFile(evalFile.before)
                  THEN extractUserExpression(evalFile.before)
                  ELSE trim(evalFile.before)
          IN endsWith(evalFile.content,
                      <<EXPR_START, NewLine>>
                        \o (IF expression = <<>> THEN Indent ELSE expression)
                        \o ExpressionTail)

\* an open buffer whose expression ends in whitespace got a new header and
\* kept everything from the start marker on
C23_HeaderReplaced ==
  /\ evalFile.ran /\ evalFile.wasOpen
  /\ evalFile.content # evalFile.before
  /\ endsWith(evalFile.content,
              <<EXPR_START, NewLine, "x", " ", NewLine>> \o ExpressionTail)
  /\ endsWith(evalFile.before,
              <<EXPR_START, NewLine, "x", " ", NewLine>> \o ExpressionTail)

\* C24: once the temp file is created, the buffer starts with the header
\* marker and holds exactly one expression-start marker line, followed by
\* exactly one expression-end marker line.
C24_WellFormed ==
  evalFile.created
    => /\ isScaffoldFile(evalFile.content)
       /\ occurrences(evalFile.content, EXPR_START) = 1
       /\ occurrences(evalFile.content, EXPR_END) = 1
       /\ indexOf(evalFile.content, EXPR_START)
            < indexOf(evalFile.content, EXPR_END)
       /\ \E i \in 1..Len(lines(evalFile.content)) :
            /\ lines(evalFile.content)[i] = Indent \o <<EXPR_START>>
            /\ \E j \in (i + 1)..Len(lines(evalFile.content)) :
                 lines(evalFile.content)[j] = Indent \o <<EXPR_END>>


\* the candidates of a pull in the order the adapter lists them: the
\* variables of the scopes that were read, 'this' with a handle replaced by
\* its members, without those that are never declared
candidates(responses) ==
  LET declared(v) ==
        LET name == identifierPart(v.name)
        IN name # <<>> /\ Head(name) # "$" /\ isValidCSharpIdentifier(name)
      entry(v) ==
        [name |-> identifierPart(v.name), type |-> sanitizeType(v.type)]
      RECURSIVE ofMembers(_)
      ofMembers(members) ==
        IF members = <<>> THEN <<>>
        ELSE (IF memberDeclared(Head(members))
                THEN <<entry(Head(members))>> ELSE <<>>)
               \o ofMembers(Tail(members))
      RECURSIVE ofVariables(_)
      ofVariables(list) ==
        IF list = <<>> THEN <<>>
        ELSE (IF Head(list).name = This /\ Head(list).variablesReference > 0
                THEN IF responses.members.ok
                       THEN ofMembers(responses.members.variables) ELSE <<>>
              ELSE IF declared(Head(list)) THEN <<entry(Head(list))>>
              ELSE <<>>)
               \o ofVariables(Tail(list))
      RECURSIVE ofScopes(_)
      ofScopes(scopes) ==
        IF scopes = <<>> THEN <<>>
        ELSE IF Head(scopes).variablesReference <= 0
          THEN ofScopes(Tail(scopes))
        ELSE IF ~Head(scopes).ok THEN <<>>
        ELSE ofVariables(Head(scopes).variables) \o ofScopes(Tail(scopes))
  IN IF responses.ok THEN ofScopes(responses.scopes) ELSE <<>>

GetScopeVariablesReturned ==
  textCall.function = "getScopeVariables" /\ textCall.returned

\* C27: the list a pull produces holds each name once, with the type of the
\* first candidate of that name, in the order in which the names were first
\* seen across the scopes; a 'this' with a handle gives way to its members.
C27_FirstOccurrenceWins ==
  GetScopeVariablesReturned
    => LET listed == candidates(textCall.input)
           variables == textCall.output
           first(name) ==
             CHOOSE i \in 1..Len(listed) :
               /\ listed[i].name = name
               /\ \A j \in 1..(i - 1) : listed[j].name # name
       IN /\ \A i \in 1..Len(variables) : \A j \in 1..Len(variables) :
               variables[i].name = variables[j].name => i = j
          /\ {variables[i].name : i \in 1..Len(variables)}
               = {listed[i].name : i \in 1..Len(listed)}
          /\ \A i \in 1..Len(variables) :
               variables[i] = listed[first(variables[i].name)]
          /\ \A i \in 1..Len(variables) : \A j \in 1..Len(variables) :
               i < j => first(variables[i].name) < first(variables[j].name)

\* x of the first scope came before the members of 'this' of the second
\* scope, and the member x and the later variable x were dropped
C27_MemberDropped ==
  /\ GetScopeVariablesReturned
  /\ Len(textCall.input.scopes) = 2
  /\ textCall.input.scopes[1].variables = <<XInt, YStr>>
  /\ textCall.input.scopes[2].variables = <<ThisObject, XStr>>
  /\ textCall.input.members.variables = <<MInt, XStr>>
  /\ textCall.output =
       << [name |-> <<"x">>, type |-> IntType],
          [name |-> <<"y">>, type |-> StrType],
          [name |-> <<"m">>, type |-> IntType] >>


VariablesPublished == textCall.function = "publish" /\ textCall.returned

\* the last variable of the response with this name
lastNamed(list, name) ==
  list[CHOOSE i \in 1..Len(list) :
         /\ list[i].name = name
         /\ \A j \in (i + 1)..Len(list) : list[j].name # name]

\* the hints hold one entry per name of the response, and an entry with a
\* handle > 0 shows "{Object}" and has that handle in objectReferences
OneEntryPerName ==
  LET hints == textCall.output.hints
      references == textCall.output.objectReferences
  IN /\ {hints[i].name : i \in 1..Len(hints)}
          = {textCall.input[i].name : i \in 1..Len(textCall.input)}
     /\ \A i \in 1..Len(hints) : \A j \in 1..Len(hints) :
          hints[i].name = hints[j].name => i = j
     /\ \A i \in 1..Len(hints) :
          LET v == lastNamed(textCall.input, hints[i].name)
          IN v.variablesReference > 0
               => /\ hints[i].value = ObjectText
                  /\ hints[i].isObject
                  /\ \E k \in 1..Len(references) :
                       references[k] = [key |-> hints[i].name,
                                        value |-> v.variablesReference]

\* C28 as stated: the published map has one entry per variable name; an
\* entry with a handle > 0 has value "{Object}" and carries the handle, an
\* entry without a handle has the adapter's display value.
C28_PublishedMap ==
  VariablesPublished
    => /\ OneEntryPerName
       /\ \A i \in 1..Len(textCall.output.hints) :
            LET v == lastNamed(textCall.input, textCall.output.hints[i].name)
            IN v.variablesReference <= 0
                 => textCall.output.hints[i].value = v.value

\* C28: the published map has one entry per variable name; an entry with a
\* handle > 0 has value "{Object}" and carries the handle; an entry without
\* a handle has the adapter's display value, or its first 50 characters
\* followed by "..." when the value is longer than 100 characters.
C28_PublishedMapCut ==
  VariablesPublished
    => /\ OneEntryPerName
       /\ \A i \in 1..Len(textCall.output.hints) :
            LET v == lastNamed(textCall.input, textCall.output.hints[i].name)
                shown == textCall.output.hints[i].value
            IN v.variablesReference <= 0
                 => IF Len(v.value) > 100
                      THEN /\ Len(shown) = 53
                           /\ SubSeq(shown, 1, 50) = SubSeq(v.value, 1, 50)
                           /\ SubSeq(shown, 51, 53) = <<".", ".", ".">>
                      ELSE shown = v.value

\* count -> "3", items -> "{Object}" with handle 42 and a text of 101
\* characters, cut to 50 and "...", were published
C28_CountItemsAndLongText ==
  /\ VariablesPublished
  /\ textCall.input = <<Count, Items, LongText>>
  /\ textCall.output.hints =
       << [name |-> <<"c">>, value |-> <<"3">>, isObject |-> FALSE],
          [name |-> <<"i">>, value |-> ObjectText, isObject |-> TRUE],
          [name |-> <<"t">>, value |-> ValueOfLength(50) \o Ellipsis,
           isObject |-> FALSE] >>
  /\ textCall.output.objectReferences = <<[key |-> <<"i">>, value |-> 42]>>


C32_FrameResolved ==
  LET frames == client.held.frames
      onDisk(i) == frames[i] # NullItem /\ frames[i].source = "exists"
      resolved == IF client.pc = "scopeVariables" THEN client.held.id
                  ELSE client.value.id
  IN  /\ ( /\ client.operation = "getFrameAndVariables"
           /\ client.pc = "scopeVariables" \/ client.value.kind = "frame" )
         => /\ frames # <<>>
            /\ \/ \E i \in 1..Len(frames) :
                    /\ onDisk(i)
                    /\ \A j \in 1..(i - 1) : ~onDisk(j)
                    /\ resolved = frames[i].id
               \/ /\ \A i \in 1..Len(frames) : ~onDisk(i)
                  /\ resolved = frames[1].id
      /\ (client.operation = "getFrameAndVariables"
          /\ client.stopped # NotStopped)
         => client.argument = IF client.stopped \in ThreadIds
                                THEN client.stopped ELSE 1
\* the pull of a stopped event without thread id has resolved the second
\* frame, the first one whose source is on disk
C32_SecondFrameResolved ==
  /\ client.operation = "getFrameAndVariables"
  /\ client.stopped = NoThread
  /\ client.value.kind = "frame"
  /\ Len(client.held.frames) = 2
  /\ client.held.frames[1].source = "none"
  /\ client.value.id = client.held.frames[2].id


\* a name the serializer is to drop: 'Raw View', 'Results View', or a name
\* that begins with '_' or '['
dropped(name) ==
  \/ name = <<"R", "a", "w", " ", "V", "i", "e", "w">>
  \/ name = <<"R", "e", "s", "u", "l", "t", "s", " ", "V", "i", "e", "w">>
  \/ name # <<>> /\ name[1] \in {"_", "["}
\* every key of the object `value`, serialized from the object of `handle`,
\* is the clean name of a property of that object that is not dropped, and
\* so on in the objects below
RECURSIVE keysKept(_, _)
keysKept(value, handle) ==
  value.kind = "object"
  => \A m \in 1..Len(value.members) :
       \E p \in 1..Len(graph[handle]) :
         LET prop == graph[handle][p]
         IN  /\ ~dropped(prop.name)
             /\ value.members[m].key = cleanPropertyName(prop.name)
             /\ prop.variablesReference > 0
                => keysKept(value.members[m].value, prop.variablesReference)
\* C33: a property named 'Raw View' or 'Results View', or whose name begins
\* with '_' or '[', is dropped before the recursion: it is not among the
\* properties a call visits, no nested call is made for its container
\* handle, and no key of a result object comes from it.
C33_InternalPropertiesDropped ==
  /\ \A i \in 1..Len(stack) :
       /\ \A j \in 1..Len(stack[i].properties) :
            ~dropped(stack[i].properties[j].name)
       /\ keysKept(Object(stack[i].result), stack[i].variablesReference)
       /\ i > 1 =>
            LET prop == Head(stack[i - 1].properties)
            IN  /\ ~dropped(prop.name)
                /\ stack[i].variablesReference = prop.variablesReference
  /\ output # NoOutput => keysKept(output, args.variablesReference)
\* the object whose containers are all debugger-internal has been
\* serialized: one variables request, one key
C33_OnlyPlainKey ==
  /\ stack = <<>> /\ requests = 1
  /\ \E p \in 1..Len(graph[args.variablesReference]) :
       LET prop == graph[args.variablesReference][p]
       IN  prop.name[1] = "[" /\ prop.variablesReference > 0
  /\ \E p \in 1..Len(graph[args.variablesReference]) :
       graph[args.variablesReference][p].name =
         <<"R", "e", "s", "u", "l", "t", "s", " ", "V", "i", "e", "w">>
  /\ output = Object(<<[key |-> <<"k">>, value |-> Leaf("number", <<"1">>)]>>)


\* a numeric text: its trimmed text is not empty and reads as a number
numericText(value) == trim(value) # <<>> /\ isNumber(value)
\* value with one layer of surrounding double quotes removed
unquoted(value) ==
  IF Len(value) >= 2 /\ value[1] = "\"" /\ value[Len(value)] = "\""
    THEN SubSeq(value, 2, Len(value) - 1)
    ELSE value
\* C34: the display text of a property without container handle is coerced:
\* a non-empty numeric text gives a number, 'true' and 'false' give
\* booleans, 'null' gives null, and any other text is kept as a string with
\* one layer of surrounding double quotes removed.
C34_PrimitiveCoerced ==
  (textCall.function = "parsePrimitiveValue" /\ textCall.returned)
  => LET value == textCall.input
         result == textCall.output
     IN  IF numericText(value) THEN result = Leaf("number", trim(value))
         ELSE IF value \in {<<"t", "r", "u", "e">>,
                            <<"f", "a", "l", "s", "e">>}
           THEN result = Leaf("boolean", value)
         ELSE IF value = <<"n", "u", "l", "l">>
           THEN result = Leaf("null", value)
         ELSE result = Leaf("string", unquoted(value))


\* the buffer begins with the header marker
beginsWithHeader(content) == content # <<>> /\ content[1] = SCAFFOLD_HEADER
\* the content holds both markers, an end marker after its first start marker
markedOff(content) ==
  \E i, j \in 1..Len(content) :
    /\ content[i] = EXPR_START /\ \A k \in 1..(i - 1) : content[k] # EXPR_START
    /\ content[j] = EXPR_END /\ i < j
\* parseExpression reads a buffer that begins with the header marker through
\* extractUserExpression and takes any other buffer as the expression
ExtractedExactlyFromScaffold ==
  (textCall.function = "parseExpression" /\ textCall.returned)
  => textCall.output =
       IF beginsWithHeader(textCall.input)
         THEN stripComments(extractUserExpression(textCall.input))
         ELSE stripComments(textCall.input)
SpecAnswered == Init /\ [][Next]_vars /\ WF_vars(PullStep)

\* the stop of pull q is no longer to be published: one of its stackTrace,
\* scopes and variables requests failed, or its session has resumed or ended
Overtaken(q) ==
  /\ q \in 1..Len(pulls)
  /\ \/ pulls[q].failedRequest
     \/ live[pulls[q].session] # "live"
     \/ pulls[q].epoch # epoch[pulls[q].session]
\* C36: every stopped event whose stackTrace, scopes and variables requests
\* succeed and that no continued or terminated event follows leads to
\* getLastStoppedState() returning its thread and resolved frame, whether or
\* not the temporary evaluation file exists or is open.
C36_StopPublished ==
  \A q \in PullIds :
    (q \in 1..Len(pulls))
      ~> (q \in 1..Len(pulls)
          /\ \/ Overtaken(q)
             \/ /\ pulls[q].frameId # NoFrame
                /\ lastStoppedState = Published(q))


\* C37: the frame id an evaluate command uses belongs to the session it acts
\* on: a command that takes the frame id of the stored stopped state, for
\* the evaluation and for the completion context, acts on the session the
\* state was recorded for.
C37_FrameOfCommandSession ==
  [][\A name \in Commands :
       (EvaluateCommand(name) /\ lastStoppedState # NoState)
       => lastStoppedState.session = pollerSession]_vars


\* C38: after stopPolling the inlay-hint variable map and the
\* object-reference table stay empty until startPolling is called again,
\* also when a poll was awaiting protocol responses when stopPolling ran.
C38_EmptyAfterStop ==
  poller.afterStop
  => /\ ~poller.hint.currentVariables
     /\ poller.hint.objectReferences = NoReference

\* C39: at most one polling interval timer is active, the one pollInterval
\* holds, and none is active after stopPolling.
C39_OneTimer ==
  /\ Cardinality(poller.timers) <= 1
  /\ poller.timers = IF poller.pollInterval = NoTimer THEN {}
                     ELSE {poller.pollInterval}
  /\ poller.afterStop => poller.timers = {}
\* startPolling has been called three times, the last time for session B:
\* the timers of the first two calls are cleared, the third is active
C39_RestartedTwice ==
  /\ poller.created = 3 /\ poller.timers = {3}
  /\ ~poller.afterStop
  /\ poller.currentSession = "B"


\* C40: evaluateExpression returns a result whenever the adapter answers
\* the evaluate request with a result field, the empty text included; it
\* returns null only when the response has neither a result nor an error.
C40_ResultFieldReturned ==
  evaluation.pc \in {"serialize", "done"}
  => LET response == evaluation.response
     IN  /\ (response.outcome = "answered" /\ response.result # Undefined)
            => evaluation.returned # NullResult
         /\ evaluation.returned = NullResult
            => /\ response.outcome # "rejected"
               /\ response.result = Undefined
               /\ response.error = Undefined

====
